---- MODULE Spec2Model ----
(***************************************************************************)
(* Cash-advance backend: the Advance lifecycle (models/Advance.js and its  *)
(* routes), the CashAdvance lifecycle (models/CashAdvance.js, the staff    *)
(* and manager routes), the role-scoped list operations, and the accounts  *)
(* (register, login, the authenticate middleware and the users routes).    *)
(*                                                                         *)
(* Every request handler is an async function: each `await` on the store   *)
(* is a point where other requests run.  A handler is therefore modelled   *)
(* as one action per stretch of code between two awaits: the step that     *)
(* reads (authenticate, authorize, validate, find) and the step that       *)
(* writes (save).  Between the two the request holds the document it       *)
(* fetched, as Mongoose does.                                              *)
(***************************************************************************)
EXTENDS Integers, Sequences, FiniteSets, TLC

VARIABLES
    users,          \* the users collection: user id -> user document
    advances,       \* the advances collection (model Advance), in insertion order
    cashAdvances,   \* the cashadvances collection (model CashAdvance), in insertion order
    proc,           \* the request each server-side handler slot is processing
    now,            \* the calendar month of the server clock
    view,           \* the last response of a list / report operation
    tokens,         \* the tokens that generateToken has issued
    today           \* days elapsed on the server clock

vars == <<users, advances, cashAdvances, proc, now, view, tokens, today>>

-----------------------------------------------------------------------------
(* Bounds of the model *)

\* concurrent requests in flight
NumProcs == 2
\* Advance documents the collection may hold
MaxAdvances == 1
\* CashAdvance documents the collection may hold
MaxCash == 1
\* Advance documents the creation specification may store
MaxCreated == 2
\* months the clock may advance past the first one
MaxTicks == 1
\* largest page number a list request asks for
MaxPage == 3
\* largest page size a list request asks for
MaxLimit == 2
\* earlier requests behind the store that the list operations read
MaxListed == 2
\* days the server clock may run
MaxDays == 8
\* tokens that may be issued
MaxTokens == 1

Procs == 1..NumProcs

-----------------------------------------------------------------------------
(* Program constants *)

\* the clock starts in September, so that both a padded ("09") and an
\* unpadded ("10") month occur
FirstMonth == 9
ClockYear == 2026
\* String(sequence).padStart(4, "0")
SeqWidth == 4
\* String(month).padStart(2, "0")
MonthWidth == 2
\* Joi: amount .max(1000000)
MaxAmount == 1000000
\* Joi: purpose .min(10)
MinPurposeLen == 10

Roles == {"staff", "manager", "finance", "admin"}
AdvanceStatuses ==
    {"pending", "manager_approved", "finance_approved", "disbursed", "rejected", "retired"}
CashStatuses == {"pending", "approved", "rejected", "retired"}

\* authorize(...) role lists of middleware/auth.js
CanApproveRoles == {"manager", "finance", "admin"}
DisburseRoles == {"finance", "admin"}
ManagerOnly == {"manager"}

-----------------------------------------------------------------------------
(* Strings of digits: String(n), padStart, slice(-k), parseInt, comparison *)

RECURSIVE ToDigits(_)
ToDigits(n) == IF n < 10 THEN <<n>> ELSE Append(ToDigits(n \div 10), n % 10)

RECURSIVE PadStart(_, _)
PadStart(s, w) == IF Len(s) >= w THEN s ELSE PadStart(<<0>> \o s, w)

SliceLast(s, k) == IF Len(s) <= k THEN s ELSE SubSeq(s, Len(s) - k + 1, Len(s))

RECURSIVE ParseInt(_)
ParseInt(s) ==
    IF s = <<>> THEN 0 ELSE ParseInt(SubSeq(s, 1, Len(s) - 1)) * 10 + s[Len(s)]

\* string order of the store's sort: first differing character decides, a
\* proper prefix sorts first
RECURSIVE StrLess(_, _)
StrLess(a, b) ==
    IF a = <<>> THEN b # <<>>
    ELSE IF b = <<>> THEN FALSE
    ELSE IF a[1] # b[1] THEN a[1] < b[1]
    ELSE StrLess(Tail(a), Tail(b))

StartsWith(s, prefix) ==
    Len(s) >= Len(prefix) /\ SubSeq(s, 1, Len(prefix)) = prefix

\* A request number "ADV<digits>" is held as its digits.
\* `ADV${year}${month}`
NumberPrefix(month) == ToDigits(ClockYear) \o PadStart(ToDigits(month), MonthWidth)

\* `ADV${year}${month}${String(sequence).padStart(4, "0")}`
MakeRequestNumber(month, sequence) ==
    NumberPrefix(month) \o PadStart(ToDigits(sequence), SeqWidth)

-----------------------------------------------------------------------------
(* Users *)

UserIds == {"u1", "u2", "m1", "f1", "a1"}

InitUsers ==
    [u \in UserIds |->
        CASE u = "u1" -> [role |-> "staff",   department |-> "D1", isActive |-> TRUE, name |-> "ann",
                          email |-> "ann@corp.com", password |-> "secret",
                          employeeId |-> "E1", position |-> "clerk"]
          [] u = "u2" -> [role |-> "staff",   department |-> "D2", isActive |-> TRUE, name |-> "bob",
                          email |-> "bob@corp.com", password |-> "secret",
                          employeeId |-> "E2", position |-> "clerk"]
          [] u = "m1" -> [role |-> "manager", department |-> "D1", isActive |-> TRUE, name |-> "may",
                          email |-> "may@corp.com", password |-> "secret",
                          employeeId |-> "E3", position |-> "clerk"]
          [] u = "f1" -> [role |-> "finance", department |-> "D3", isActive |-> TRUE, name |-> "fay",
                          email |-> "fay@corp.com", password |-> "secret",
                          employeeId |-> "E4", position |-> "clerk"]
          [] u = "a1" -> [role |-> "admin",   department |-> "D3", isActive |-> TRUE, name |-> "ada",
                          email |-> "ada@corp.com", password |-> "secret",
                          employeeId |-> "E5", position |-> "clerk"]]

\* authenticate: the token's subject must be a stored, active user
Authenticate(u) == u \in DOMAIN users /\ users[u].isActive

\* a guard that lets every role through
AuthorizeAnyRole(role, roles) == TRUE

\* authorize(...roles)
Authorize(role, roles) == role \in roles

-----------------------------------------------------------------------------
(* Documents *)

NoDisbursement == [disbursedBy |-> "none", disbursedAmount |-> 0, method |-> "none"]
NoBody == [amount |-> 0, purpose |-> "none", priority |-> "none", returnsIn |-> 0,
           disbursedAmount |-> 0, method |-> "none",
           email |-> "none", password |-> "none", isActive |-> "none",
           name |-> "none", department |-> "none", position |-> "none",
           role |-> "none", employeeId |-> "none", reason |-> "none"]
\* no Authorization header
NoToken == [form |-> "absent", sub |-> "none", exp |-> 0]
NoDoc == [status |-> "none"]
NoId == [k |-> "none", n |-> 0]
AdvId(n) == [k |-> "adv", n |-> n]
CashId(n) == [k |-> "cash", n |-> n]

Idle ==
    [pc |-> "idle", op |-> "none", actor |-> "none", role |-> "none", id |-> NoId,
     decision |-> "none", body |-> NoBody, doc |-> NoDoc, seen |-> "none",
     code |-> 0, current |-> "none",
     token |-> NoToken, target |-> "none", message |-> "none"]

\* the response: status code and, where the body carries one, a status
Respond(req, code, current) ==
    [req EXCEPT !.pc = "done", !.doc = NoDoc, !.decision = "none",
                !.code = code, !.current = current]

Free(p) == proc[p].pc \in {"idle", "done"}

AdvanceExists(id) == id.k = "adv" /\ id.n \in 1..Len(advances)
CashExists(id) == id.k = "cash" /\ id.n \in 1..Len(cashAdvances)

-----------------------------------------------------------------------------
(* POST /advances (model Advance): validateAdvanceRequest, pre("save") hook *)

PurposeLen(purpose) ==
    CASE purpose = "travel reimbursement" -> 20
      [] purpose = "team offsite" -> 12
      [] purpose = "taxi" -> 4
      [] OTHER -> 0

Priorities == {"low", "medium", "high", "urgent"}

\* Joi schema of validateAdvanceRequest; returnsIn is expectedReturnDate - now
validateAdvanceRequest(body) ==
    /\ body.amount > 0
    /\ body.amount <= MaxAmount
    /\ PurposeLen(body.purpose) >= MinPurposeLen
    /\ body.returnsIn > 0
    /\ body.priority \in Priorities \cup {"none"}

\* findOne({requestNumber: /^ADV<year><month>/}).sort({requestNumber: -1}):
\* the index of the matching document with the greatest number, 0 if none
LastAdvance(store, prefix) ==
    LET matching == {i \in 1..Len(store) : StartsWith(store[i].requestNumber, prefix)}
    IN  IF matching = {} THEN 0
        ELSE CHOOSE i \in matching :
                \A j \in matching :
                    ~StrLess(store[i].requestNumber, store[j].requestNumber)

\* the body of the pre("save") hook: the number the new document is given
NextRequestNumber(store, month) ==
    LET last == LastAdvance(store, NumberPrefix(month))
        sequence == IF last = 0 THEN 1
                    ELSE ParseInt(SliceLast(store[last].requestNumber, SeqWidth)) + 1
    IN  MakeRequestNumber(month, sequence)

\* new Advance({...}) with the schema's defaults
NewAdvance(actor, body, number, date) ==
    [requestNumber |-> number,
     requester |-> actor,
     amount |-> body.amount,
     purpose |-> body.purpose,
     priority |-> IF body.priority = "none" THEN "medium" ELSE body.priority,
     requestDate |-> date,
     status |-> "pending",
     approvals |-> <<>>,
     disbursement |-> NoDisbursement,
     isActive |-> TRUE]

\* authenticate, validateAdvanceRequest, new Advance, save() up to the hook's
\* await of findOne
CreateStart(p, actor, body) ==
    /\ Free(p)
    /\ LET req == [Idle EXCEPT !.op = "create", !.actor = actor, !.body = body]
       IN proc' = [proc EXCEPT ![p] =
            IF ~Authenticate(actor) THEN Respond(req, 401, "none")
            ELSE IF ~validateAdvanceRequest(body)
                 THEN Respond([req EXCEPT !.role = users[actor].role], 400, "none")
            ELSE [req EXCEPT !.pc = "create_save",
                             !.role = users[actor].role,
                             !.doc = NewAdvance(actor, body,
                                                NextRequestNumber(advances, now), now)]]
    /\ UNCHANGED <<users, advances, cashAdvances, now, view, tokens, today>>

\* a collection without the unique index
DuplicateNumberUnchecked(number) == FALSE

\* unique index on requestNumber
DuplicateNumber(number) ==
    \E i \in 1..Len(advances) : advances[i].requestNumber = number

\* the insert of save(): refused by the unique index (caught, 500) or stored (201)
CreateSave(p) ==
    /\ proc[p].pc = "create_save"
    /\ IF DuplicateNumber(proc[p].doc.requestNumber)
       THEN /\ proc' = [proc EXCEPT ![p] = Respond(@, 500, "none")]
            /\ UNCHANGED advances
       ELSE /\ advances' = Append(advances, proc[p].doc)
            /\ proc' = [proc EXCEPT ![p] =
                    Respond([@ EXCEPT !.id = AdvId(Len(advances) + 1)], 201, @.doc.status)]
    /\ UNCHANGED <<users, cashAdvances, now, view, tokens, today>>

-----------------------------------------------------------------------------
(* PUT /advances/:id/approve *)

\* advanceSchema.methods.canBeApprovedBy
\* a guard that only refuses the terminal statuses
canBeApprovedByAnyStage(doc, userRole) ==
    ~(doc.status = "rejected" \/ doc.status = "retired")

\* a guard that takes an admin for a finance officer
canBeApprovedByAdminAsFinance(doc, userRole) ==
    IF doc.status = "rejected" \/ doc.status = "retired" THEN FALSE
    ELSE IF userRole = "manager" /\ doc.status = "pending" THEN TRUE
    ELSE IF userRole \in {"finance", "admin"} /\ doc.status = "manager_approved" THEN TRUE
    ELSE FALSE

canBeApprovedBy(doc, userRole) ==
    IF doc.status = "rejected" \/ doc.status = "retired" THEN FALSE
    ELSE IF userRole = "manager" /\ doc.status = "pending" THEN TRUE
    ELSE IF userRole = "finance" /\ doc.status = "manager_approved" THEN TRUE
    ELSE FALSE

\* addApproval with the rejected branch missing
addApprovalByRoleOnly(doc, approverId, role, status) ==
    [doc EXCEPT
        !.approvals = Append(@, [approver |-> approverId, role |-> role, status |-> status]),
        !.status = IF role = "manager" THEN "manager_approved"
                   ELSE IF role = "finance" THEN "finance_approved"
                   ELSE @]

\* advanceSchema.methods.addApproval, on the fetched document
addApproval(doc, approverId, role, status) ==
    [doc EXCEPT
        !.approvals = Append(@, [approver |-> approverId, role |-> role, status |-> status]),
        !.status = IF status = "rejected" THEN "rejected"
                   ELSE IF role = "manager" /\ status = "approved" THEN "manager_approved"
                   ELSE IF role = "finance" /\ status = "approved" THEN "finance_approved"
                   ELSE @]

\* authenticate, canApprove, body check, findById, canBeApprovedBy, addApproval
ApproveFetch(p, actor, id, decision) ==
    /\ Free(p)
    /\ LET req == [Idle EXCEPT !.op = "approve", !.actor = actor, !.id = id,
                               !.decision = decision]
       IN proc' = [proc EXCEPT ![p] =
            IF ~Authenticate(actor) THEN Respond(req, 401, "none")
            ELSE LET r == [req EXCEPT !.role = users[actor].role] IN
                 IF ~Authorize(r.role, CanApproveRoles) THEN Respond(r, 403, "none")
                 ELSE IF decision \notin {"approved", "rejected"} THEN Respond(r, 400, "none")
                 ELSE IF ~AdvanceExists(id) THEN Respond(r, 404, "none")
                 ELSE IF ~canBeApprovedBy(advances[id.n], r.role)
                      THEN Respond([r EXCEPT !.seen = advances[id.n].status], 400,
                                   advances[id.n].status)
                 ELSE [r EXCEPT !.pc = "approve_save",
                                !.seen = advances[id.n].status,
                                !.doc = addApproval(advances[id.n], actor, r.role, decision)]]
    /\ UNCHANGED <<users, advances, cashAdvances, now, view, tokens, today>>

\* save() of a fetched document writes what was modified on it, by _id: the
\* pushed approval ($push) and the status ($set); it carries no condition on
\* the stored status
ApproveSave(p) ==
    /\ proc[p].pc = "approve_save"
    /\ LET n == proc[p].id.n
           doc == proc[p].doc
       IN  /\ advances' = [advances EXCEPT
                    ![n].approvals = Append(@, doc.approvals[Len(doc.approvals)]),
                    ![n].status = doc.status]
           /\ proc' = [proc EXCEPT ![p] = Respond(@, 200, doc.status)]
    /\ UNCHANGED <<users, cashAdvances, now, view, tokens, today>>

-----------------------------------------------------------------------------
(* PUT /advances/:id/disburse *)

\* authenticate, authorize("finance", "admin"), findById, status check, local update
DisburseFetch(p, actor, id, body) ==
    /\ Free(p)
    /\ LET req == [Idle EXCEPT !.op = "disburse", !.actor = actor, !.id = id, !.body = body]
       IN proc' = [proc EXCEPT ![p] =
            IF ~Authenticate(actor) THEN Respond(req, 401, "none")
            ELSE LET r == [req EXCEPT !.role = users[actor].role] IN
                 IF ~Authorize(r.role, DisburseRoles) THEN Respond(r, 403, "none")
                 ELSE IF ~AdvanceExists(id) THEN Respond(r, 404, "none")
                 ELSE IF advances[id.n].status # "finance_approved"
                      THEN Respond([r EXCEPT !.seen = advances[id.n].status], 400, "none")
                 ELSE [r EXCEPT
                        !.pc = "disburse_save",
                        !.seen = advances[id.n].status,
                        !.doc = [advances[id.n] EXCEPT
                            !.disbursement =
                                [disbursedBy |-> actor,
                                 disbursedAmount |->
                                    IF body.disbursedAmount # 0 THEN body.disbursedAmount
                                    ELSE advances[id.n].amount,
                                 method |-> IF body.method # "none" THEN body.method
                                            ELSE "cash"],
                            !.status = "disbursed"]]]
    /\ UNCHANGED <<users, advances, cashAdvances, now, view, tokens, today>>

\* a save that also writes the disbursed amount over the requested amount
DisburseSaveOverAmount(p) ==
    /\ proc[p].pc = "disburse_save"
    /\ LET n == proc[p].id.n
           doc == proc[p].doc
       IN  /\ advances' = [advances EXCEPT
                    ![n].disbursement = doc.disbursement,
                    ![n].amount = doc.disbursement.disbursedAmount,
                    ![n].status = doc.status]
           /\ proc' = [proc EXCEPT ![p] = Respond(@, 200, doc.status)]
    /\ UNCHANGED <<users, cashAdvances, now, view, tokens, today>>

\* save(): $set of disbursement and status, by _id
DisburseSave(p) ==
    /\ proc[p].pc = "disburse_save"
    /\ LET n == proc[p].id.n
           doc == proc[p].doc
       IN  /\ advances' = [advances EXCEPT
                    ![n].disbursement = doc.disbursement,
                    ![n].status = doc.status]
           /\ proc' = [proc EXCEPT ![p] = Respond(@, 200, doc.status)]
    /\ UNCHANGED <<users, cashAdvances, now, view, tokens, today>>

-----------------------------------------------------------------------------
(* POST /advances (model CashAdvance) *)

NoRetirement == [totalExpenses |-> 0, retired |-> FALSE]

\* new CashAdvance({...}) with the schema's defaults
NewCashAdvance(actor, body, date) ==
    [user |-> actor,
     amount |-> body.amount,
     purpose |-> body.purpose,
     status |-> "pending",
     approvedBy |-> "none",
     rejectedReason |-> "none",
     retirement |-> NoRetirement,
     createdAt |-> date]

\* authenticate, validateAdvanceRequest, new CashAdvance, save (one insert,
\* no unique index)
CashCreate(p, actor, body) ==
    /\ Free(p)
    /\ LET req == [Idle EXCEPT !.op = "cash_create", !.actor = actor, !.body = body]
       IN IF ~Authenticate(actor)
          THEN /\ proc' = [proc EXCEPT ![p] = Respond(req, 401, "none")]
               /\ UNCHANGED cashAdvances
          ELSE IF ~validateAdvanceRequest(body)
          THEN /\ proc' = [proc EXCEPT ![p] =
                        Respond([req EXCEPT !.role = users[actor].role], 400, "none")]
               /\ UNCHANGED cashAdvances
          ELSE /\ cashAdvances' = Append(cashAdvances, NewCashAdvance(actor, body, now))
               /\ proc' = [proc EXCEPT ![p] =
                        Respond([req EXCEPT !.role = users[actor].role,
                                            !.id = CashId(Len(cashAdvances) + 1)],
                                201, "pending")]
    /\ UNCHANGED <<users, advances, now, view, tokens, today>>

-----------------------------------------------------------------------------
(* PUT /manager/requests/:id/approve and /reject *)

\* User.find({department, role: "staff", isActive: true}).select("_id")
TeamMemberIds(department) ==
    {u \in DOMAIN users :
        /\ users[u].department = department
        /\ users[u].role = "staff"
        /\ users[u].isActive}

\* CashAdvance.findOne({_id, status: "pending", user: {$in: teamMemberIds}})
FindPendingTeamRequest(id, teamMemberIds) ==
    /\ CashExists(id)
    /\ cashAdvances[id.n].status = "pending"
    /\ cashAdvances[id.n].user \in teamMemberIds

\* reason.trim()
Trim(s) ==
    CASE s = "  " -> ""
      [] s = " late " -> "late"
      [] OTHER -> s

\* the handler's update of the fetched document
ManagerDecide(doc, actor, decision, reason) ==
    IF decision = "approved"
    THEN [doc EXCEPT !.status = "approved", !.approvedBy = actor]
    ELSE [doc EXCEPT !.status = "rejected", !.rejectedReason = Trim(reason)]

\* authenticate, authorize("manager"), the three finds, and the local update;
\* decision is "approved" (the approve route) or "rejected" (the reject route,
\* whose body carries the reason)
ManagerFetch(p, actor, id, decision, reason) ==
    /\ Free(p)
    /\ LET req == [Idle EXCEPT !.op = "manager_decide", !.actor = actor, !.id = id,
                               !.decision = decision,
                               !.body = [NoBody EXCEPT !.reason = reason]]
       IN proc' = [proc EXCEPT ![p] =
            IF ~Authenticate(actor) THEN Respond(req, 401, "none")
            ELSE LET r == [req EXCEPT !.role = users[actor].role] IN
                 IF ~Authorize(r.role, ManagerOnly) THEN Respond(r, 403, "none")
                 ELSE IF ~FindPendingTeamRequest(id, TeamMemberIds(users[actor].department))
                      THEN Respond(r, 404, "none")
                 ELSE IF decision = "rejected" /\ Trim(reason) = ""
                      THEN Respond([r EXCEPT !.seen = "pending"], 400, "none")
                 ELSE [r EXCEPT
                        !.pc = "manager_save",
                        !.seen = cashAdvances[id.n].status,
                        !.doc = ManagerDecide(cashAdvances[id.n], actor, decision, reason)]]
    /\ UNCHANGED <<users, advances, cashAdvances, now, view, tokens, today>>

\* save(): $set of the modified paths, by _id
ManagerSave(p) ==
    /\ proc[p].pc = "manager_save"
    /\ LET n == proc[p].id.n
           doc == proc[p].doc
       IN  /\ cashAdvances' = [cashAdvances EXCEPT
                    ![n].status = doc.status,
                    ![n].approvedBy =
                        IF proc[p].decision = "approved" THEN doc.approvedBy ELSE @,
                    ![n].rejectedReason =
                        IF proc[p].decision = "rejected" THEN doc.rejectedReason ELSE @]
           /\ proc' = [proc EXCEPT ![p] = Respond(@, 200, doc.status)]
    /\ UNCHANGED <<users, advances, now, view, tokens, today>>

-----------------------------------------------------------------------------
(* PUT /advances/:id/retire *)

\* middleware validateRetirement
validateRetirement(body) == body.amount >= 0

\* the status stored under the addressed _id, in whichever collection holds it
StoredStatus(id) ==
    IF AdvanceExists(id) THEN advances[id.n].status
    ELSE IF CashExists(id) THEN cashAdvances[id.n].status
    ELSE "none"

\* authenticate, validateRetirement, CashAdvance.findOne({_id, user}), the two
\* status checks, and the local update; body.amount carries totalExpenses
RetireFetch(p, actor, id, body) ==
    /\ Free(p)
    /\ LET req == [Idle EXCEPT !.op = "retire", !.actor = actor, !.id = id, !.body = body,
                               !.seen = StoredStatus(id)]
       IN proc' = [proc EXCEPT ![p] =
            IF ~Authenticate(actor) THEN Respond(req, 401, "none")
            ELSE LET r == [req EXCEPT !.role = users[actor].role] IN
                 IF ~validateRetirement(body) THEN Respond(r, 400, "none")
                 ELSE IF ~(CashExists(id) /\ cashAdvances[id.n].user = actor)
                      THEN Respond(r, 404, "none")
                 ELSE IF cashAdvances[id.n].status # "approved" THEN Respond(r, 400, "none")
                 ELSE IF cashAdvances[id.n].status = "retired" THEN Respond(r, 400, "none")
                 ELSE [r EXCEPT
                        !.pc = "retire_save",
                        !.doc = [cashAdvances[id.n] EXCEPT
                                    !.status = "retired",
                                    !.retirement = [totalExpenses |-> body.amount,
                                                    retired |-> TRUE]]]]
    /\ UNCHANGED <<users, advances, cashAdvances, now, view, tokens, today>>

\* save(): $set of status and retirement, by _id
RetireSave(p) ==
    /\ proc[p].pc = "retire_save"
    /\ LET n == proc[p].id.n
           doc == proc[p].doc
       IN  /\ cashAdvances' = [cashAdvances EXCEPT
                    ![n].status = doc.status,
                    ![n].retirement = doc.retirement]
           /\ proc' = [proc EXCEPT ![p] = Respond(@, 200, doc.status)]
    /\ UNCHANGED <<users, advances, now, view, tokens, today>>

-----------------------------------------------------------------------------
(* List and report operations.  A query is the record of the request's query
   parameters; "none" (0 for a date) stands for an absent parameter.  Each
   handler only reads the store; its response is put in view. *)

\* Math.ceil(total / limit), limit >= 1
Ceil(total, limit) == (total + limit - 1) \div limit

\* the indices of S as .sort({key: -1}) yields them (ties in store order)
RECURSIVE SortDesc(_, _)
SortDesc(S, key) ==
    IF S = {} THEN <<>>
    ELSE LET first == CHOOSE i \in S :
                        \A j \in S : key[i] > key[j] \/ (key[i] = key[j] /\ i <= j)
         IN  <<first>> \o SortDesc(S \ {first}, key)

\* .sort({key: 1})
RECURSIVE SortAsc(_, _)
SortAsc(S, key) ==
    IF S = {} THEN <<>>
    ELSE LET first == CHOOSE i \in S :
                        \A j \in S : key[i] < key[j] \/ (key[i] = key[j] /\ i <= j)
         IN  <<first>> \o SortAsc(S \ {first}, key)

\* .skip(skip).limit(limit)
SkipLimit(seq, skip, limit) ==
    SubSeq(seq, skip + 1, IF skip + limit < Len(seq) THEN skip + limit ELSE Len(seq))

\* no response held
NoView == [op |-> "none"]

NoQuery ==
    [page |-> 1, limit |-> 1, status |-> "none", priority |-> "none", search |-> "none",
     startDate |-> 0, endDate |-> 0, role |-> "none"]

Unpaged == [currentPage |-> 0, totalPages |-> 0, total |-> 0, hasNext |-> FALSE,
            hasPrev |-> FALSE]

\* the pagination object of a list response
Pagination(page, limit, total) ==
    [currentPage |-> page,
     totalPages |-> Ceil(total, limit),
     total |-> total,
     hasNext |-> page < Ceil(total, limit),
     hasPrev |-> page > 1]

Denied(op, actor, code) ==
    [op |-> op, actor |-> actor, role |-> "none", code |-> code, kind |-> "none",
     query |-> NoQuery, items |-> <<>>, paged |-> FALSE, pagination |-> Unpaged]

Listed(op, actor, kind, query, items, paged, pagination) ==
    [op |-> op, actor |-> actor, role |-> users[actor].role, code |-> 200, kind |-> kind,
     query |-> query, items |-> items, paged |-> paged, pagination |-> pagination]

AdvanceDates == [i \in 1..Len(advances) |-> advances[i].requestDate]
CashDates == [i \in 1..Len(cashAdvances) |-> cashAdvances[i].createdAt]

\* GET /advances: "Regular staff can only see their own requests"
RoleScopeOpen(doc, actor, role) == TRUE
RoleScope(doc, actor, role) == role = "staff" => doc.requester = actor

\* GET /advances: the filter object built from the role and the query
AdvanceFilter(doc, actor, role, query) ==
    /\ doc.isActive
    /\ RoleScope(doc, actor, role)
    /\ query.status \notin {"none", "all"} => doc.status = query.status
    /\ query.priority \notin {"none", "all"} => doc.priority = query.priority
    /\ query.startDate # 0 => doc.requestDate >= query.startDate
    /\ query.endDate # 0 => doc.requestDate <= query.endDate

\* the $or of the search path: request number, purpose, and the looked-up
\* requester's names and employee id, matched against the search term
SearchMatches(doc, term) ==
    \/ term = "ADV"
    \/ term = doc.purpose
    \/ doc.requester \in DOMAIN users /\ term = users[doc.requester].name

\* GET /advances, both paths; the total is countDocuments(filter) in both
ListAdvancesResponse(actor, query) ==
    LET role == users[actor].role
        skip == (query.page - 1) * query.limit
        filtered == {i \in 1..Len(advances) : AdvanceFilter(advances[i], actor, role, query)}
        searched == {i \in filtered : SearchMatches(advances[i], query.search)}
        total == Cardinality(filtered)
        found == IF query.search # "none" THEN searched ELSE filtered
    IN  Listed("list_advances", actor, "adv", query,
               SkipLimit(SortDesc(found, AdvanceDates), skip, query.limit),
               TRUE, Pagination(query.page, query.limit, total))

ListAdvances(actor, query) ==
    /\ view = NoView
    /\ view' = IF ~Authenticate(actor) THEN Denied("list_advances", actor, 401)
               ELSE ListAdvancesResponse(actor, query)
    /\ UNCHANGED <<users, advances, cashAdvances, proc, now, tokens, today>>

\* .limit(5) of the dashboard and of /staff/recent
RecentLimit == 5
\* .limit(3) of /staff/pending
PendingLimit == 3

\* GET /advances/dashboard/stats: the recent advances under the role's filter
DashboardStats(actor) ==
    /\ view = NoView
    /\ view' =
        IF ~Authenticate(actor) THEN Denied("dashboard_stats", actor, 401)
        ELSE LET role == users[actor].role
                 found == {i \in 1..Len(advances) :
                            advances[i].isActive /\ RoleScope(advances[i], actor, role)}
             IN  Listed("dashboard_stats", actor, "adv", NoQuery,
                        SkipLimit(SortDesc(found, AdvanceDates), 0, RecentLimit),
                        FALSE, Unpaged)
    /\ UNCHANGED <<users, advances, cashAdvances, proc, now, tokens, today>>

\* GET /advances/:id: found, then the canView check
GetAdvance(actor, id) ==
    /\ view = NoView
    /\ view' =
        IF ~Authenticate(actor) THEN Denied("get_advance", actor, 401)
        ELSE IF ~AdvanceExists(id) THEN Denied("get_advance", actor, 404)
        \* populate leaves requester null when its User is gone, and
        \* advance.requester._id throws: caught, 500
        ELSE IF advances[id.n].requester \notin DOMAIN users
             THEN Denied("get_advance", actor, 500)
        ELSE IF ~(advances[id.n].requester = actor
                    \/ users[actor].role \in {"admin", "manager", "finance"})
             THEN Denied("get_advance", actor, 403)
        ELSE Listed("get_advance", actor, "adv", NoQuery, <<id.n>>, FALSE, Unpaged)
    /\ UNCHANGED <<users, advances, cashAdvances, proc, now, tokens, today>>

\* advanceSchema.statics.getPendingForApproval
getPendingForApproval(userRole) ==
    LET found == {i \in 1..Len(advances) :
                    /\ userRole = "manager" => advances[i].status = "pending"
                    /\ userRole = "finance" => advances[i].status = "manager_approved"}
    IN  SortAsc(found, AdvanceDates)

\* GET /advances/pending/approvals
PendingApprovals(actor) ==
    /\ view = NoView
    /\ view' =
        IF ~Authenticate(actor) THEN Denied("pending_approvals", actor, 401)
        ELSE IF ~Authorize(users[actor].role, CanApproveRoles)
             THEN Denied("pending_approvals", actor, 403)
        ELSE Listed("pending_approvals", actor, "adv", NoQuery,
                    getPendingForApproval(users[actor].role), FALSE, Unpaged)
    /\ UNCHANGED <<users, advances, cashAdvances, proc, now, tokens, today>>

\* GET /reports/pending-advances
ReportPendingAdvances(actor) ==
    /\ view = NoView
    /\ view' =
        IF ~Authenticate(actor) THEN Denied("report_pending", actor, 401)
        ELSE IF ~Authorize(users[actor].role, CanApproveRoles)
             THEN Denied("report_pending", actor, 403)
        ELSE LET found == {i \in 1..Len(advances) :
                            /\ advances[i].status \in {"pending", "manager_approved"}
                            /\ advances[i].isActive}
             IN  Listed("report_pending", actor, "adv", NoQuery,
                        SortAsc(found, AdvanceDates), FALSE, Unpaged)
    /\ UNCHANGED <<users, advances, cashAdvances, proc, now, tokens, today>>

\* GET /advances/my-requests (model CashAdvance)
MyRequestsResponse(actor, query) ==
    LET skip == (query.page - 1) * query.limit
        found == {i \in 1..Len(cashAdvances) :
                    /\ cashAdvances[i].user = actor
                    /\ query.status \notin {"none", "all"} =>
                            cashAdvances[i].status = query.status}
    IN  Listed("my_requests", actor, "cash", query,
               SkipLimit(SortDesc(found, CashDates), skip, query.limit),
               TRUE, Pagination(query.page, query.limit, Cardinality(found)))

MyRequests(actor, query) ==
    /\ view = NoView
    /\ view' = IF ~Authenticate(actor) THEN Denied("my_requests", actor, 401)
               ELSE MyRequestsResponse(actor, query)
    /\ UNCHANGED <<users, advances, cashAdvances, proc, now, tokens, today>>

\* GET /advances/staff/recent and /advances/staff/pending
StaffRecent(actor, pendingOnly) ==
    /\ view = NoView
    /\ view' =
        IF ~Authenticate(actor) THEN Denied("staff_recent", actor, 401)
        ELSE LET found == {i \in 1..Len(cashAdvances) :
                            /\ cashAdvances[i].user = actor
                            /\ pendingOnly => cashAdvances[i].status = "pending"}
             IN  Listed("staff_recent", actor, "cash", NoQuery,
                        SkipLimit(SortDesc(found, CashDates), 0,
                                  IF pendingOnly THEN PendingLimit ELSE RecentLimit),
                        FALSE, Unpaged)
    /\ UNCHANGED <<users, advances, cashAdvances, proc, now, tokens, today>>

\* GET /manager/team-requests: the team's requests, filtered and searched;
\* the total is countDocuments of the same filter
TeamRequestsResponse(actor, query) ==
    LET skip == (query.page - 1) * query.limit
        team == TeamMemberIds(users[actor].department)
        found == {i \in 1..Len(cashAdvances) :
                    /\ cashAdvances[i].user \in team
                    /\ query.status \notin {"none", "all"} =>
                            cashAdvances[i].status = query.status
                    /\ query.search # "none" => cashAdvances[i].purpose = query.search}
    IN  Listed("team_requests", actor, "cash", query,
               SkipLimit(SortDesc(found, CashDates), skip, query.limit),
               TRUE, Pagination(query.page, query.limit, Cardinality(found)))

TeamRequests(actor, query) ==
    /\ view = NoView
    /\ view' =
        IF ~Authenticate(actor) THEN Denied("team_requests", actor, 401)
        ELSE IF ~Authorize(users[actor].role, ManagerOnly)
             THEN Denied("team_requests", actor, 403)
        ELSE TeamRequestsResponse(actor, query)
    /\ UNCHANGED <<users, advances, cashAdvances, proc, now, tokens, today>>

\* the users in .sort({createdAt: -1}) order
UserOrder == <<"a1", "f1", "m1", "u2", "u1">>

\* GET /users: role filter and search; the total is countDocuments of the
\* same filter
ListUsersResponse(actor, query) ==
    LET skip == (query.page - 1) * query.limit
        found == SelectSeq(UserOrder,
                    LAMBDA u : /\ u \in DOMAIN users
                               /\ query.role \notin {"none", "all"} =>
                                        users[u].role = query.role
                               /\ query.search # "none" => users[u].name = query.search)
    IN  Listed("list_users", actor, "user", query,
               SkipLimit(found, skip, query.limit),
               TRUE, Pagination(query.page, query.limit, Len(found)))

ListUsers(actor, query) ==
    /\ view = NoView
    /\ view' =
        IF ~Authenticate(actor) THEN Denied("list_users", actor, 401)
        ELSE IF ~Authorize(users[actor].role, CanApproveRoles)
             THEN Denied("list_users", actor, 403)
        ELSE ListUsersResponse(actor, query)
    /\ UNCHANGED <<users, advances, cashAdvances, proc, now, tokens, today>>

\* the response has been sent
ViewClear ==
    /\ view # NoView
    /\ view' = NoView
    /\ UNCHANGED <<users, advances, cashAdvances, proc, now, tokens, today>>

-----------------------------------------------------------------------------
(* Accounts: POST /auth/login, the authenticate middleware, GET /auth/me,
   PUT /users/:id/status and DELETE /users/:id.  authenticate awaits
   User.findById, so the handler behind it is a step of its own. *)

\* jwt.sign(..., {expiresIn: "7d"})
TokenDays == 7

\* generateToken
generateToken(userId) == [form |-> "signed", sub |-> userId, exp |-> today + TokenDays]

\* a token that jwt.verify refuses: wrong signature or not a JWT
ForgedToken == [form |-> "forged", sub |-> "a1", exp |-> MaxDays + TokenDays]

\* validateLogin: email in email format, password present
validateLogin(body) ==
    /\ body.email \notin {"none", "not-an-email"}
    /\ body.password # "none"

\* User.findOne({email})
FindByEmail(email) == {u \in DOMAIN users : users[u].email = email}

\* the login succeeds: the user is found, active, and the password matches
LoginSucceeds(body) ==
    /\ validateLogin(body)
    /\ \E u \in FindByEmail(body.email) :
            users[u].isActive /\ users[u].password = body.password

\* POST /auth/login
Login(p, body) ==
    /\ Free(p)
    /\ LET req == [Idle EXCEPT !.op = "login", !.body = body]
           found == FindByEmail(body.email)
           user == CHOOSE u \in found : TRUE
           token == generateToken(user)
       IN  IF ~validateLogin(body)
           THEN /\ proc' = [proc EXCEPT ![p] =
                        [Respond(req, 400, "none") EXCEPT !.message = "Validation error"]]
                /\ UNCHANGED tokens
           ELSE IF found = {}
           THEN /\ proc' = [proc EXCEPT ![p] =
                        [Respond(req, 400, "none") EXCEPT
                            !.message = "Invalid email or password"]]
                /\ UNCHANGED tokens
           ELSE IF ~users[user].isActive
           THEN /\ proc' = [proc EXCEPT ![p] =
                        [Respond(req, 400, "none") EXCEPT
                            !.message = "Account has been deactivated. Please contact administrator."]]
                /\ UNCHANGED tokens
           ELSE IF users[user].password # body.password
           THEN /\ proc' = [proc EXCEPT ![p] =
                        [Respond(req, 400, "none") EXCEPT
                            !.message = "Invalid email or password"]]
                /\ UNCHANGED tokens
           ELSE /\ proc' = [proc EXCEPT ![p] =
                        [Respond(req, 200, "none") EXCEPT
                            !.message = "Login successful", !.actor = user,
                            !.token = token]]
                /\ tokens' = tokens \cup {token}
    /\ UNCHANGED <<users, advances, cashAdvances, now, view, today>>

\* the authenticate middleware without the isActive check
authenticateAnyAccount(token) ==
    IF token.form = "absent" THEN "Access denied. No token provided."
    ELSE IF token.form # "signed" THEN "Invalid token."
    ELSE IF today >= token.exp THEN "Token has expired."
    ELSE IF token.sub \notin DOMAIN users THEN "Token is not valid. User not found."
    ELSE "next"

\* the authenticate middleware: "next", or the message of its 401
authenticate(token) ==
    IF token.form = "absent" THEN "Access denied. No token provided."
    ELSE IF token.form # "signed" THEN "Invalid token."
    ELSE IF today >= token.exp THEN "Token has expired."
    ELSE IF token.sub \notin DOMAIN users THEN "Token is not valid. User not found."
    ELSE IF ~users[token.sub].isActive THEN "Account has been deactivated."
    ELSE "next"

AccountOps == {"me", "user_status", "user_delete"}

\* a request to a route behind authenticate, up to the middleware's next()
AuthenticateRequest(p, op, token, target, body) ==
    /\ Free(p)
    /\ LET req == [Idle EXCEPT !.op = op, !.token = token, !.target = target,
                               !.body = body]
           answer == authenticate(token)
       IN  proc' = [proc EXCEPT ![p] =
                IF answer = "next"
                THEN [req EXCEPT !.pc = "authed", !.actor = token.sub,
                                 !.role = users[token.sub].role]
                ELSE [Respond(req, 401, "none") EXCEPT !.message = answer]]
    /\ UNCHANGED <<users, advances, cashAdvances, now, view, tokens, today>>

\* isAdmin with every role let through
isAdminAnyRole(role) == TRUE

\* const isAdmin = authorize("admin")
isAdmin(role) == Authorize(role, {"admin"})

\* GET /auth/me: answers with req.user
Me(p) ==
    /\ proc[p].pc = "authed"
    /\ proc[p].op = "me"
    /\ proc' = [proc EXCEPT ![p] = Respond(proc[p], 200, "none")]
    /\ UNCHANGED <<users, advances, cashAdvances, now, view, tokens, today>>

\* PUT /users/:id/status: isAdmin, body check (the JSON literal of isActive
\* must be true or false), findByIdAndUpdate
UserStatus(p) ==
    /\ proc[p].pc = "authed"
    /\ proc[p].op = "user_status"
    /\ LET req == proc[p] IN
       IF ~isAdmin(req.role)
       THEN /\ proc' = [proc EXCEPT ![p] = Respond(req, 403, "none")]
            /\ UNCHANGED users
       ELSE IF req.body.isActive \notin {"true", "false"}
       THEN /\ proc' = [proc EXCEPT ![p] = Respond(req, 400, "none")]
            /\ UNCHANGED users
       ELSE IF req.target \notin DOMAIN users
       THEN /\ proc' = [proc EXCEPT ![p] = Respond(req, 404, "none")]
            /\ UNCHANGED users
       ELSE /\ proc' = [proc EXCEPT ![p] = Respond(req, 200, "none")]
            /\ users' = [users EXCEPT ![req.target].isActive = (req.body.isActive = "true")]
    /\ UNCHANGED <<advances, cashAdvances, now, view, tokens, today>>

\* DELETE /users/:id: isAdmin, findByIdAndDelete
UserDelete(p) ==
    /\ proc[p].pc = "authed"
    /\ proc[p].op = "user_delete"
    /\ LET req == proc[p] IN
       IF ~isAdmin(req.role)
       THEN /\ proc' = [proc EXCEPT ![p] = Respond(req, 403, "none")]
            /\ UNCHANGED users
       ELSE IF req.target \notin DOMAIN users
       THEN /\ proc' = [proc EXCEPT ![p] = Respond(req, 404, "none")]
            /\ UNCHANGED users
       ELSE /\ proc' = [proc EXCEPT ![p] = Respond(req, 200, "none")]
            /\ users' = [u \in DOMAIN users \ {req.target} |-> users[u]]
    /\ UNCHANGED <<advances, cashAdvances, now, view, tokens, today>>

-----------------------------------------------------------------------------
(* routes/users.js behind authenticate: GET /users/:id, PUT /users/:id and
   PUT /users/:id/role.  Of the five profile fields firstName, lastName, phone,
   department and position, name (firstName), department and position are
   kept; a body field "none" is an absent key. *)

\* the condition of the 403 of GET /users/:id, negated
CanViewUser(actor, role, target) ==
    actor = target \/ role \in {"admin", "manager", "finance"}

\* GET /users/:id: findById, the 404, and only then the ownership check
GetUser(p) ==
    /\ proc[p].pc = "authed"
    /\ proc[p].op = "user_get"
    /\ LET req == proc[p] IN
       proc' = [proc EXCEPT ![p] =
            IF req.target \notin DOMAIN users THEN Respond(req, 404, "none")
            ELSE IF ~CanViewUser(req.actor, req.role, req.target)
                 THEN Respond(req, 403, "none")
            ELSE Respond(req, 200, "none")]
    /\ UNCHANGED <<users, advances, cashAdvances, now, view, tokens, today>>

\* the length of the strings that profile bodies carry
FieldLen(s) ==
    CASE s = "x" -> 1
      [] s = "none" -> 0
      [] OTHER -> 4

\* Joi: .min(2) of the profile fields
MinFieldLen == 2

\* validateProfileUpdate: each present field has at least two characters;
\* Joi.object refuses a key the schema does not name (here: role)
validateProfileUpdate(body) ==
    /\ body.name # "none" => FieldLen(body.name) >= MinFieldLen
    /\ body.department # "none" => FieldLen(body.department) >= MinFieldLen
    /\ body.position # "none" => FieldLen(body.position) >= MinFieldLen
    /\ body.role = "none"

\* an ownership check that lets every caller through
AnyProfile(actor, role, target) == TRUE

\* the condition of the 403 of PUT /users/:id, negated
OwnProfileOrAdmin(actor, role, target) == actor = target \/ role = "admin"

\* PUT /users/:id: validateProfileUpdate, the ownership check, findById
UserUpdateFetch(p) ==
    /\ proc[p].pc = "authed"
    /\ proc[p].op = "user_update"
    /\ LET req == proc[p] IN
       proc' = [proc EXCEPT ![p] =
            IF ~validateProfileUpdate(req.body) THEN Respond(req, 400, "none")
            ELSE IF ~OwnProfileOrAdmin(req.actor, req.role, req.target)
                 THEN Respond(req, 403, "none")
            ELSE IF req.target \notin DOMAIN users THEN Respond(req, 404, "none")
            ELSE [req EXCEPT !.pc = "user_update_save"]]
    /\ UNCHANGED <<users, advances, cashAdvances, now, view, tokens, today>>

\* the allowedUpdates loop and findByIdAndUpdate(userId, {$set: updates}); a
\* user deleted since the findById is left absent and the answer is still 200
UserUpdateSave(p) ==
    /\ proc[p].pc = "user_update_save"
    /\ LET req == proc[p]
           t == req.target
       IN  /\ users' =
                IF t \notin DOMAIN users THEN users
                ELSE [users EXCEPT
                        ![t].name = IF req.body.name # "none" THEN req.body.name ELSE @,
                        ![t].department =
                            IF req.body.department # "none" THEN req.body.department ELSE @,
                        ![t].position =
                            IF req.body.position # "none" THEN req.body.position ELSE @]
           /\ proc' = [proc EXCEPT ![p] = Respond(req, 200, "none")]
    /\ UNCHANGED <<advances, cashAdvances, now, view, tokens, today>>

\* PUT /users/:id/role: isAdmin, the role check, findByIdAndUpdate
UserRole(p) ==
    /\ proc[p].pc = "authed"
    /\ proc[p].op = "user_role"
    /\ LET req == proc[p] IN
       IF ~isAdmin(req.role)
       THEN /\ proc' = [proc EXCEPT ![p] = Respond(req, 403, "none")]
            /\ UNCHANGED users
       ELSE IF req.body.role \notin Roles
       THEN /\ proc' = [proc EXCEPT ![p] = Respond(req, 400, "none")]
            /\ UNCHANGED users
       ELSE IF req.target \notin DOMAIN users
       THEN /\ proc' = [proc EXCEPT ![p] = Respond(req, 404, "none")]
            /\ UNCHANGED users
       ELSE /\ proc' = [proc EXCEPT ![p] = Respond(req, 200, "none")]
            /\ users' = [users EXCEPT ![req.target].role = req.body.role]
    /\ UNCHANGED <<advances, cashAdvances, now, view, tokens, today>>

-----------------------------------------------------------------------------
(* POST /auth/register *)

\* the lowercase setter of userSchema.email
Lowercase(s) ==
    CASE s = "Ann@Corp.com" -> "ann@corp.com"
      [] s = "New@Corp.com" -> "new@corp.com"
      [] OTHER -> s

\* the uppercase setter of userSchema.employeeId
Uppercase(s) ==
    CASE s = "e1" -> "E1"
      [] s = "e9" -> "E9"
      [] OTHER -> s

\* validateRegister; the value Joi converts is dropped, req.body stays as sent
validateRegister(body) ==
    /\ FieldLen(body.name) >= MinFieldLen
    /\ body.email \notin {"none", "not-an-email"}
    /\ body.password # "none"
    /\ body.employeeId # "none"
    /\ FieldLen(body.department) >= MinFieldLen
    /\ FieldLen(body.position) >= MinFieldLen
    /\ body.role \in Roles \cup {"none"}

\* User.findOne({$or: [{email}, {employeeId}]}): Mongoose casts the filter
\* with the schema's setters, so the stored forms are what is looked up
FindByEmailOrEmployeeId(email, employeeId) ==
    {u \in DOMAIN users :
        \/ users[u].email = Lowercase(email)
        \/ users[u].employeeId = Uppercase(employeeId)}

\* new User({...}) with the schema's setters and defaults
NewUser(body) ==
    [role |-> IF body.role = "none" THEN "staff" ELSE body.role,
     department |-> body.department,
     isActive |-> TRUE,
     name |-> body.name,
     email |-> Lowercase(body.email),
     password |-> body.password,
     employeeId |-> Uppercase(body.employeeId),
     position |-> body.position]

\* the _id values new users are given
NewUserIds == {"n1", "n2", "n3", "n4", "n5", "n6"}

\* validateRegister and the findOne: the 400 of the pre-check compares the
\* stored email with the email as sent
RegisterStart(p, body) ==
    /\ Free(p)
    /\ LET req == [Idle EXCEPT !.op = "register", !.body = body]
           found == FindByEmailOrEmployeeId(body.email, body.employeeId)
       IN  IF ~validateRegister(body)
           THEN proc' = [proc EXCEPT ![p] =
                    [Respond(req, 400, "none") EXCEPT !.message = "Validation error"]]
           ELSE IF found # {}
           THEN \E existingUser \in found :
                    proc' = [proc EXCEPT ![p] =
                        [Respond(req, 400, "none") EXCEPT !.message =
                            IF users[existingUser].email = body.email
                            THEN "User with this email already exists"
                            ELSE "Employee ID already exists"]]
           ELSE proc' = [proc EXCEPT ![p] = [req EXCEPT !.pc = "register_save"]]
    /\ UNCHANGED <<users, advances, cashAdvances, now, view, tokens, today>>

\* userSchema.index({email: 1}, {unique: true})
DuplicateEmail(email) == \E u \in DOMAIN users : users[u].email = email

\* userSchema.index({employeeId: 1}, {unique: true})
DuplicateEmployeeId(employeeId) ==
    \E u \in DOMAIN users : users[u].employeeId = employeeId

\* user.save(): refused by a unique index (error 11000, answered 400 with the
\* field of keyPattern), or stored; then generateToken and the 201
RegisterSave(p) ==
    /\ proc[p].pc = "register_save"
    /\ LET req == proc[p]
           user == NewUser(req.body)
           id == CHOOSE n \in NewUserIds : n \notin DOMAIN users
       IN  \/ /\ DuplicateEmail(user.email)
              /\ proc' = [proc EXCEPT ![p] =
                    [Respond(req, 400, "none") EXCEPT !.message = "Email already exists"]]
              /\ UNCHANGED <<users, tokens>>
           \/ /\ DuplicateEmployeeId(user.employeeId)
              /\ proc' = [proc EXCEPT ![p] =
                    [Respond(req, 400, "none") EXCEPT
                        !.message = "Employee ID already exists"]]
              /\ UNCHANGED <<users, tokens>>
           \/ /\ ~DuplicateEmail(user.email)
              /\ ~DuplicateEmployeeId(user.employeeId)
              /\ users' = [u \in DOMAIN users \cup {id} |->
                                IF u = id THEN user ELSE users[u]]
              /\ tokens' = tokens \cup {generateToken(id)}
              /\ proc' = [proc EXCEPT ![p] =
                    [Respond(req, 201, "none") EXCEPT
                        !.actor = id, !.token = generateToken(id),
                        !.message = "User registered successfully"]]
    /\ UNCHANGED <<advances, cashAdvances, now, view, today>>

\* a day passes
DayPass ==
    /\ today < MaxDays
    /\ today' = today + 1
    /\ UNCHANGED <<users, advances, cashAdvances, proc, now, view, tokens>>

-----------------------------------------------------------------------------
(* The clock *)

Tick ==
    /\ now < FirstMonth + MaxTicks
    /\ now' = now + 1
    /\ UNCHANGED <<users, advances, cashAdvances, proc, view, tokens, today>>

-----------------------------------------------------------------------------
(* Specifications *)

Init ==
    /\ users = InitUsers
    /\ advances = <<>>
    /\ cashAdvances = <<>>
    /\ proc = [p \in Procs |-> Idle]
    /\ now = FirstMonth
    /\ view = NoView
    /\ tokens = {}
    /\ today = 0

AdvanceBody(amount, purpose, priority, returnsIn) ==
    [NoBody EXCEPT !.amount = amount, !.purpose = purpose, !.priority = priority,
                   !.returnsIn = returnsIn]
DisburseBody(disbursedAmount, method) ==
    [NoBody EXCEPT !.disbursedAmount = disbursedAmount, !.method = method]
RetireBody(totalExpenses) == [NoBody EXCEPT !.amount = totalExpenses]

\* request inputs of the approval specification
Approvers == {"m1", "f1", "a1"}
Decisions == {"approved", "rejected", "maybe"}
AdvanceIds == {AdvId(n) : n \in 1..(MaxAdvances + 1)}

\* The Advance lifecycle under concurrent requests: one staff user files
\* requests, managers / finance / admin decide and disburse them.
Next ==
    \/ \E p \in Procs :
            /\ Len(advances) < MaxAdvances
            /\ CreateStart(p, "u1", AdvanceBody(500, "travel reimbursement", "none", 1))
    \/ \E p \in Procs : CreateSave(p)
    \/ \E p \in Procs, a \in Approvers, id \in AdvanceIds, d \in Decisions :
            ApproveFetch(p, a, id, d)
    \/ \E p \in Procs : ApproveSave(p)
    \/ \E p \in Procs, a \in {"f1", "m1"}, id \in AdvanceIds :
            DisburseFetch(p, a, id, DisburseBody(0, "none"))
    \/ \E p \in Procs : DisburseSave(p)

Spec == Init /\ [][Next]_vars

\* request bodies of the creation specification: two that validate and one
\* for each rule of the schema that can fail
CreateBodies ==
    {AdvanceBody(500, "travel reimbursement", "none", 1),
     AdvanceBody(700, "team offsite", "high", 1),
     AdvanceBody(0, "travel reimbursement", "none", 1),
     AdvanceBody(MaxAmount + 1, "travel reimbursement", "none", 1),
     AdvanceBody(500, "taxi", "none", 1),
     AdvanceBody(500, "travel reimbursement", "none", 0),
     AdvanceBody(500, "travel reimbursement", "soon", 1)}

\* Creation of Advances under concurrent requests, across a month boundary.
NextCreate ==
    \/ \E p \in Procs, a \in {"u1", "m1"}, b \in CreateBodies :
            /\ Len(advances) < MaxCreated
            /\ CreateStart(p, a, b)
    \/ \E p \in Procs : CreateSave(p)
    \/ Tick

SpecCreate == Init /\ [][NextCreate]_vars

\* The whole lifecycle of one Advance and one CashAdvance, one request at a time.
NextLifecycle ==
    \/ \E a \in {"u1", "m1", "f1"} :
            /\ Len(advances) < MaxAdvances
            /\ CreateStart(1, a, AdvanceBody(500, "travel reimbursement", "none", 1))
    \/ CreateSave(1)
    \/ \E a \in {"m1", "f1", "a1"}, id \in AdvanceIds, d \in {"approved", "rejected"} :
            ApproveFetch(1, a, id, d)
    \/ ApproveSave(1)
    \/ \E a \in {"f1", "a1"}, id \in AdvanceIds,
          b \in {DisburseBody(0, "none"), DisburseBody(450, "bank_transfer")} :
            DisburseFetch(1, a, id, b)
    \/ DisburseSave(1)
    \/ \E a \in {"u1", "u2"} :
            /\ Len(cashAdvances) < MaxCash
            /\ CashCreate(1, a, AdvanceBody(500, "travel reimbursement", "none", 1))
    \/ \E id \in {CashId(1)}, d \in {"approved", "rejected"}, r \in {"", "late"} :
            ManagerFetch(1, "m1", id, d, r)
    \/ ManagerSave(1)
    \/ \E a \in {"u1", "u2"}, id \in {AdvId(1), CashId(1)},
          b \in {RetireBody(480), RetireBody(0 - 1)} :
            RetireFetch(1, a, id, b)
    \/ RetireSave(1)

SpecLifecycle == Init /\ [][NextLifecycle]_vars

-----------------------------------------------------------------------------
(* The list operations over stores that earlier requests have filled *)

\* earlier requests: who filed, with what body, in which month, and the
\* manager's decision on it ("none": undecided)
Filed(actor, body, month, decided) ==
    [actor |-> actor, body |-> body, month |-> month, decided |-> decided]

FiledAdvances ==
    {Filed("u1", AdvanceBody(500, "travel reimbursement", "none", 1), FirstMonth, "none"),
     Filed("u2", AdvanceBody(700, "team offsite", "high", 1), FirstMonth, "approved"),
     Filed("u1", AdvanceBody(700, "team offsite", "high", 1), FirstMonth + 1, "none"),
     Filed("m1", AdvanceBody(500, "travel reimbursement", "none", 1), FirstMonth + 1, "none")}

FiledCash ==
    {Filed("u1", AdvanceBody(500, "travel reimbursement", "none", 1), FirstMonth, "none"),
     Filed("u2", AdvanceBody(700, "team offsite", "none", 1), FirstMonth, "none"),
     Filed("u1", AdvanceBody(700, "team offsite", "none", 1), FirstMonth + 1, "approved"),
     Filed("u1", AdvanceBody(500, "travel reimbursement", "none", 1), FirstMonth + 1, "rejected")}

\* the histories of at most MaxListed requests, in the order of the clock
Histories(filed) ==
    {h \in UNION {[1..n -> filed] : n \in 0..MaxListed} :
        \A i \in 1..Len(h), j \in 1..Len(h) : i < j => h[i].month <= h[j].month}

\* the Advance store after the requests of a history: POST /advances, then
\* the manager's PUT /advances/:id/approve where one was made
RECURSIVE AdvancesAfter(_)
AdvancesAfter(h) ==
    IF h = <<>> THEN <<>>
    ELSE LET store == AdvancesAfter(SubSeq(h, 1, Len(h) - 1))
             r == h[Len(h)]
             doc == NewAdvance(r.actor, r.body, NextRequestNumber(store, r.month), r.month)
         IN  Append(store, IF r.decided = "none" THEN doc
                           ELSE addApproval(doc, "m1", "manager", r.decided))

\* the CashAdvance store after the requests of a history: POST /advances,
\* then the manager's approve or reject where one was made
RECURSIVE CashAfter(_)
CashAfter(h) ==
    IF h = <<>> THEN <<>>
    ELSE LET store == CashAfter(SubSeq(h, 1, Len(h) - 1))
             r == h[Len(h)]
             doc == NewCashAdvance(r.actor, r.body, r.month)
         IN  Append(store, IF r.decided = "none" THEN doc
                           ELSE ManagerDecide(doc, "m1", r.decided, "late"))

InitQuery ==
    /\ users = InitUsers
    /\ \/ /\ advances \in {AdvancesAfter(h) : h \in Histories(FiledAdvances)}
          /\ cashAdvances = <<>>
       \/ /\ advances = <<>>
          /\ cashAdvances \in {CashAfter(h) : h \in Histories(FiledCash)}
    /\ proc = [p \in Procs |-> Idle]
    /\ now = FirstMonth + 1
    /\ view = NoView
    /\ tokens = {}
    /\ today = 0

\* query strings of GET /advances
AdvanceQueries ==
    {[NoQuery EXCEPT !.page = pg, !.limit = l, !.status = st, !.priority = pr,
                     !.search = se, !.startDate = sd, !.endDate = ed] :
        pg \in 1..MaxPage, l \in 1..MaxLimit, st \in {"none", "pending"},
        pr \in {"none", "high"}, se \in {"none", "ann", "team offsite"},
        sd \in {0, FirstMonth + 1}, ed \in {0, FirstMonth}}

\* query strings of /advances/my-requests and /manager/team-requests
CashQueries ==
    {[NoQuery EXCEPT !.page = pg, !.limit = l, !.status = st, !.search = se] :
        pg \in 1..MaxPage, l \in 1..MaxLimit, st \in {"none", "pending", "all"},
        se \in {"none", "team offsite"}}

\* query strings of GET /users
UserQueries ==
    {[NoQuery EXCEPT !.page = pg, !.limit = l, !.role = r, !.search = se] :
        pg \in 1..MaxPage, l \in 1..MaxLimit, r \in {"none", "staff"},
        se \in {"none", "ann"}}

NextQuery ==
    \/ \E a \in {"u1", "u2", "m1", "f1"}, q \in AdvanceQueries : ListAdvances(a, q)
    \/ \E a \in {"u1", "u2", "m1"} : DashboardStats(a)
    \/ \E a \in {"u1", "u2", "m1"}, n \in 1..MaxListed : GetAdvance(a, AdvId(n))
    \/ \E a \in {"u1", "m1", "f1", "a1"} : PendingApprovals(a)
    \/ \E a \in {"u1", "m1", "f1"} : ReportPendingAdvances(a)
    \/ \E a \in {"u1", "u2"}, q \in CashQueries : MyRequests(a, q)
    \/ \E a \in {"u1", "u2"}, pendingOnly \in BOOLEAN : StaffRecent(a, pendingOnly)
    \/ \E a \in {"m1", "u1"}, q \in CashQueries : TeamRequests(a, q)
    \/ \E a \in {"m1", "a1", "u1"}, q \in UserQueries : ListUsers(a, q)
    \/ ViewClear

SpecQuery == InitQuery /\ [][NextQuery]_vars

-----------------------------------------------------------------------------
(* Numbering late in a busy month: creations one at a time on a store whose
   greatest request number of the month is given.  The hook reads only that
   greatest number, so the month's earlier documents are left out. *)

\* the sequence of the month's last stored Advance (0: none stored yet)
LastSequences == {0, 1, 9998, 9999}

BusyMonth(last) ==
    IF last = 0 THEN <<>>
    ELSE <<NewAdvance("u2", AdvanceBody(700, "team offsite", "high", 1),
                      MakeRequestNumber(FirstMonth, last), FirstMonth)>>

InitNumbering ==
    /\ users = InitUsers
    /\ advances \in {BusyMonth(last) : last \in LastSequences}
    /\ cashAdvances = <<>>
    /\ proc = [p \in Procs |-> Idle]
    /\ now = FirstMonth
    /\ view = NoView
    /\ tokens = {}
    /\ today = 0

NextNumbering ==
    \/ \E b \in CreateBodies :
            /\ Len(advances) <= MaxCreated
            /\ CreateStart(1, "u1", b)
    \/ CreateSave(1)
    \/ Tick

SpecNumbering == InitNumbering /\ [][NextNumbering]_vars

-----------------------------------------------------------------------------
(* Accounts and tokens: logins, requests behind authenticate, an admin
   deactivating, reactivating and deleting users, and callers of every role
   on the role-guarded routes, while days pass *)

LoginBody(email, password) == [NoBody EXCEPT !.email = email, !.password = password]
StatusBody(isActive) == [NoBody EXCEPT !.isActive = isActive]

LoginBodies ==
    {LoginBody(e, pw) : e \in {"ann@corp.com", "ada@corp.com", "nobody@corp.com",
                               "not-an-email"},
                        pw \in {"secret", "guess"}}

\* the Authorization headers a client may send
Presented == tokens \cup {NoToken, ForgedToken}

NextAccounts ==
    \/ \E b \in LoginBodies :
            /\ LoginSucceeds(b) => Cardinality(tokens) < MaxTokens
            /\ Login(1, b)
    \/ \E t \in Presented : AuthenticateRequest(1, "me", t, "none", NoBody)
    \/ \E t \in Presented, u \in {"u1", "a1"}, b \in {"true", "false", "none"} :
            AuthenticateRequest(1, "user_status", t, u, StatusBody(b))
    \/ \E t \in Presented, u \in {"u1", "a1"} :
            AuthenticateRequest(1, "user_delete", t, u, NoBody)
    \/ \E a \in {"u1", "m1", "f1"}, d \in {"approved", "rejected"} :
            ApproveFetch(1, a, AdvId(1), d)
    \/ \E a \in {"u1", "m1", "f1"} : DisburseFetch(1, a, AdvId(1), DisburseBody(0, "none"))
    \/ \E a \in {"u1", "m1", "f1"} : ManagerFetch(1, a, CashId(1), "approved", "")
    \/ Me(1)
    \/ UserStatus(1)
    \/ UserDelete(1)
    \/ DayPass

SpecAccounts == Init /\ [][NextAccounts]_vars

-----------------------------------------------------------------------------
(* The users routes on a store that holds one Advance and one pending
   CashAdvance of the staff user u2 (department D2): callers of every role
   read, update, promote, deactivate and delete users, and the manager m1
   (department D1) decides on the CashAdvance *)

UpdateBody(name, department, position, role) ==
    [NoBody EXCEPT !.name = name, !.department = department, !.position = position,
                   !.role = role]
RoleBody(role) == [NoBody EXCEPT !.role = role]

\* bodies of PUT /users/:id: a name, a department, a position, a name that is
\* too short, and a body with the key role
UpdateBodies ==
    {UpdateBody("anna", "none", "none", "none"),
     UpdateBody("none", "D2", "none", "none"),
     UpdateBody("none", "none", "lead", "none"),
     UpdateBody("x", "none", "none", "none"),
     UpdateBody("none", "none", "none", "admin")}

\* the users that have logged in
Callers == {"u1", "m1", "a1"}

InitUsersRoutes ==
    /\ users = InitUsers
    /\ advances = <<NewAdvance("u2", AdvanceBody(700, "team offsite", "high", 1),
                               MakeRequestNumber(FirstMonth, 1), FirstMonth)>>
    /\ cashAdvances = <<NewCashAdvance("u2", AdvanceBody(700, "team offsite", "none", 1),
                                       FirstMonth)>>
    /\ proc = [p \in Procs |-> Idle]
    /\ now = FirstMonth
    /\ view = NoView
    /\ today = 0
    /\ tokens = {generateToken(u) : u \in Callers}

NextUsersRoutes ==
    \/ \E t \in tokens, u \in {"u1", "u2", "zz"} :
            AuthenticateRequest(1, "user_get", t, u, NoBody)
    \/ \E t \in tokens, u \in {"u1", "m1"}, b \in UpdateBodies :
            AuthenticateRequest(1, "user_update", t, u, b)
    \/ \E t \in tokens, r \in {"manager", "admin", "boss"} :
            AuthenticateRequest(1, "user_role", t, "u1", RoleBody(r))
    \/ \E t \in tokens : AuthenticateRequest(1, "user_status", t, "u1", StatusBody("false"))
    \/ \E t \in tokens : AuthenticateRequest(1, "user_delete", t, "u2", NoBody)
    \/ GetUser(1)
    \/ UserUpdateFetch(1)
    \/ UserUpdateSave(1)
    \/ UserRole(1)
    \/ UserStatus(1)
    \/ UserDelete(1)
    \/ ManagerFetch(1, "m1", CashId(1), "approved", "")
    \/ ManagerSave(1)

SpecUsersRoutes == InitUsersRoutes /\ [][NextUsersRoutes]_vars

-----------------------------------------------------------------------------
(* Registrations under concurrent requests: new and taken emails and employee
   identifiers, in the case they are stored in and in another one *)

\* users that may be registered
MaxRegistered == 2

RegisterBody(email, employeeId, role) ==
    [NoBody EXCEPT !.name = "newt", !.email = email, !.password = "secret",
                   !.employeeId = employeeId, !.department = "D1",
                   !.position = "clerk", !.role = role]

RegisterBodies ==
    {RegisterBody(e, i, r) :
        e \in {"new@corp.com", "New@Corp.com", "ann@corp.com", "Ann@Corp.com",
               "not-an-email"},
        i \in {"E9", "e9", "E1"},
        r \in {"none", "admin"}}

NextRegister ==
    \/ \E p \in Procs, b \in RegisterBodies :
            /\ Cardinality(DOMAIN users) < Cardinality(UserIds) + MaxRegistered
            /\ RegisterStart(p, b)
    \/ \E p \in Procs : RegisterSave(p)

SpecRegister == Init /\ [][NextRegister]_vars

-----------------------------------------------------------------------------
(* The CashAdvance lifecycle under concurrent requests: staff file and retire,
   the manager of the department approves and rejects *)

NextCash ==
    \/ \E p \in Procs, a \in {"u1", "u2"} :
            /\ Len(cashAdvances) < MaxCash
            /\ CashCreate(p, a, AdvanceBody(500, "travel reimbursement", "none", 1))
    \/ \E p \in Procs, a \in {"m1", "f1"}, d \in {"approved", "rejected"},
          r \in {"", "  ", " late "} :
            ManagerFetch(p, a, CashId(1), d, r)
    \/ \E p \in Procs : ManagerSave(p)
    \/ \E p \in Procs, a \in {"u1", "u2"},
          b \in {RetireBody(480), RetireBody(300), RetireBody(0 - 1)} :
            RetireFetch(p, a, CashId(1), b)
    \/ \E p \in Procs : RetireSave(p)

SpecCash == Init /\ [][NextCash]_vars

-----------------------------------------------------------------------------
(* Claims about the Advance lifecycle, checked under Spec *)

SavePcs == {"approve_save", "disburse_save", "manager_save", "retire_save"}

\* p completes its write in this step
Writes(p) == proc[p].pc \in SavePcs /\ proc'[p].pc = "done" /\ proc'[p].code = 200

\* C2: every Advance's status is one of the six statuses, and once an Advance
\* is rejected or retired no request, in any interleaving, changes its status.
C2_TerminalStatusesAbsorbing ==
    /\ [](\A n \in 1..Len(advances) : advances[n].status \in AdvanceStatuses)
    /\ [][\A n \in 1..Len(advances) :
            advances[n].status \in {"rejected", "retired"}
                => advances'[n].status = advances[n].status]_vars

\* C3: a manager's approve/reject request succeeds on a pending Advance, moving
\* it to manager_approved or rejected, and never changes a manager_approved
\* Advance; a finance request succeeds on a manager_approved Advance, moving it
\* to finance_approved or rejected, and never changes a pending Advance.
C3_RoleActsOnlyOnItsStage ==
    [][\A p \in Procs :
        /\ (proc[p].pc = "approve_save" /\ proc'[p].pc = "done") =>
              LET n == proc[p].id.n IN
              /\ proc[p].role = "manager" =>
                    /\ advances[n].status # "manager_approved"
                    /\ advances'[n].status \in {"manager_approved", "rejected"}
              /\ proc[p].role = "finance" =>
                    /\ advances[n].status # "pending"
                    /\ advances'[n].status \in {"finance_approved", "rejected"}
        /\ (Free(p) /\ proc'[p].op = "approve" /\ proc'[p] # proc[p]
                /\ proc'[p].code \notin {401, 403, 404}
                /\ AdvanceExists(proc'[p].id)) =>
              LET st == advances[proc'[p].id.n].status
                  accepted == proc'[p].pc = "approve_save"
              IN  /\ (proc'[p].role = "manager" /\ st = "manager_approved") => ~accepted
                  /\ (proc'[p].role = "finance" /\ st = "pending") => ~accepted
                  /\ (proc'[p].role = "manager" /\ st = "pending"
                        /\ proc'[p].decision \in {"approved", "rejected"}) => accepted
                  /\ (proc'[p].role = "finance" /\ st = "manager_approved"
                        /\ proc'[p].decision \in {"approved", "rejected"}) => accepted
      ]_vars

ManagerEvents(n) ==
    Cardinality({i \in 1..Len(advances[n].approvals) :
                    advances[n].approvals[i].role = "manager"})

\* C4: of two manager approve/reject requests processed concurrently on the
\* same pending Advance (both fetched it pending), exactly one succeeds, the
\* other fails reporting the now-current status, and the history gains one event.
C4_OneOfTwoConcurrentApprovalsWins ==
    \A p, q \in Procs :
        (/\ p # q
         /\ proc[p].pc = "done" /\ proc[q].pc = "done"
         /\ proc[p].op = "approve" /\ proc[q].op = "approve"
         /\ proc[p].role = "manager" /\ proc[q].role = "manager"
         /\ proc[p].id = proc[q].id
         /\ proc[p].seen = "pending" /\ proc[q].seen = "pending")
        => /\ (proc[p].code = 200) # (proc[q].code = 200)
           /\ proc[p].code = 200 =>
                /\ proc[q].code = 400
                /\ proc[q].current = proc[p].current
           /\ ManagerEvents(proc[p].id.n) = 1

\* the two concurrent manager requests of C4 have both completed
C4_Raced ==
    \E p, q \in Procs :
        /\ p # q
        /\ proc[p].pc = "done" /\ proc[q].pc = "done"
        /\ proc[p].op = "approve" /\ proc[q].op = "approve"
        /\ proc[p].role = "manager" /\ proc[q].role = "manager"
        /\ proc[p].id = proc[q].id
        /\ proc[p].seen = "pending" /\ proc[q].seen = "pending"

\* C5: every transition is an atomic check-then-set: no request writes a new
\* status onto a document whose stored status at write time differs from the
\* status its guard observed.
C5_WriteOnlyOnObservedStatus ==
    [][\A p \in Procs : Writes(p) => StoredStatus(proc[p].id) = proc[p].seen]_vars

\* C6: the status of every Advance is consistent with its sub-records.
C6_StatusMatchesSubRecords ==
    \A n \in 1..Len(advances) :
        LET a == advances[n]
            k == Len(a.approvals)
        IN  /\ a.status = "pending" => k = 0
            /\ a.status = "manager_approved" =>
                    k > 0 /\ a.approvals[k].status = "approved" /\ a.approvals[k].role = "manager"
            /\ a.status = "finance_approved" =>
                    k > 0 /\ a.approvals[k].status = "approved" /\ a.approvals[k].role = "finance"
            /\ a.status = "rejected" =>
                    k > 0 /\ a.approvals[k].status = "rejected" /\ a.disbursement = NoDisbursement
            /\ a.status = "disbursed" => a.disbursement # NoDisbursement
            /\ a.disbursement # NoDisbursement => a.status \in {"disbursed", "retired"}

-----------------------------------------------------------------------------
(* Claims about creation, checked under SpecCreate *)

\* ADV<year><2-digit month><4-digit sequence>, for the months of the clock
WellFormedNumber(number) ==
    /\ Len(number) = Len(ToDigits(ClockYear)) + MonthWidth + SeqWidth
    /\ \E m \in FirstMonth..(FirstMonth + MaxTicks) : StartsWith(number, NumberPrefix(m))

\* C1: every creation request that passes validation stores an Advance with
\* status pending, the amount of the request, and a well-formed request number
\* that no other stored Advance has.
C1_ValidCreationStoresPendingAdvance ==
    \A p \in Procs :
        (/\ proc[p].pc = "done"
         /\ proc[p].op = "create"
         /\ proc[p].code # 401
         /\ validateAdvanceRequest(proc[p].body))
        => /\ proc[p].code = 201
           /\ AdvanceExists(proc[p].id)
           /\ proc[p].current = "pending"
           /\ LET n == proc[p].id.n IN
              /\ advances[n].amount = proc[p].body.amount
              /\ advances[n].requester = proc[p].actor
              /\ WellFormedNumber(advances[n].requestNumber)
              /\ \A m \in 1..Len(advances) :
                    m # n => advances[m].requestNumber # advances[n].requestNumber

\* a valid creation request has been answered
C1_ValidCreationAnswered ==
    \E p \in Procs :
        /\ proc[p].pc = "done"
        /\ proc[p].op = "create"
        /\ proc[p].code = 201
        /\ validateAdvanceRequest(proc[p].body)

\* C12: no two stored Advances have the same request number, whatever the
\* interleaving of concurrent creation requests.
C12_StoredNumbersDistinct ==
    \A m, n \in 1..Len(advances) :
        m # n => advances[m].requestNumber # advances[n].requestNumber

\* two creations raced for one number: one is stored, the other was refused
C12_CollisionRefused ==
    \E p \in Procs, n \in 1..Len(advances) :
        /\ proc[p].pc = "done"
        /\ proc[p].op = "create"
        /\ proc[p].code = 500
        /\ advances[n].requestDate = now

\* C13: a creation whose number collides with a concurrent one retries and
\* is stored with a distinct number, or fails with a conflict error: a valid
\* creation is never answered with a generic server error.
C13_CollisionRetriedOrConflict ==
    \A p \in Procs :
        (/\ proc[p].pc = "done"
         /\ proc[p].op = "create"
         /\ proc[p].code \notin {400, 401})
        => proc[p].code \in {201, 409}

\* the digits after ADV<year><month>
SequencePart(number) == SubSeq(number, Len(NumberPrefix(FirstMonth)) + 1, Len(number))

\* the largest sequence stored for the month (0 when none is)
LargestSequence(month) ==
    LET stored == {ParseInt(SequencePart(advances[i].requestNumber)) :
                    i \in {j \in 1..Len(advances) :
                            StartsWith(advances[j].requestNumber, NumberPrefix(month))}}
    IN  IF stored = {} THEN 0 ELSE CHOOSE k \in stored : \A l \in stored : l <= k

\* C14: creations made one at a time in a month are stored with the largest
\* stored sequence of the month plus one (1 for the first), in exactly 4
\* digits, also when the sequence reaches and passes 9999.
C14_SequentialNumbersIncrease ==
    [][(proc[1].pc = "create_save" /\ proc'[1].pc = "done") =>
            /\ proc'[1].code = 201
            /\ LET number == advances'[Len(advances')].requestNumber
               IN  /\ ParseInt(SequencePart(number)) =
                            LargestSequence(proc[1].doc.requestDate) + 1
                   /\ Len(SequencePart(number)) = SeqWidth
      ]_vars

\* a creation on a month whose last sequence was 9999 has been answered
C14_PassedFourDigits ==
    /\ proc[1].pc = "done"
    /\ proc[1].op = "create"
    /\ proc[1].code \in {201, 500}
    /\ \E i \in 1..Len(advances) :
            ParseInt(SequencePart(advances[i].requestNumber)) = 9999

-----------------------------------------------------------------------------
(* Claims about the whole lifecycle, checked under SpecLifecycle *)

\* C10: on a disbursed Advance a retire request by its requester succeeds and
\* sets status retired; a retire request on a retired Advance fails with a
\* state-conflict error and leaves it retired.
C10_RequesterRetiresDisbursedAdvance ==
    \A p \in Procs :
        (/\ proc[p].pc = "done"
         /\ proc[p].op = "retire"
         /\ AdvanceExists(proc[p].id)
         /\ proc[p].actor = advances[proc[p].id.n].requester
         /\ validateRetirement(proc[p].body))
        => /\ proc[p].seen = "disbursed" =>
                /\ proc[p].code = 200
                /\ advances[proc[p].id.n].status = "retired"
           /\ proc[p].seen = "retired" =>
                /\ proc[p].code = 400
                /\ advances[proc[p].id.n].status = "retired"

\* the requester has asked to retire an Advance that was disbursed
C10_RetireAsked ==
    \E p \in Procs :
        /\ proc[p].pc = "done"
        /\ proc[p].op = "retire"
        /\ AdvanceExists(proc[p].id)
        /\ proc[p].actor = advances[proc[p].id.n].requester
        /\ proc[p].seen = "disbursed"

\* C15: no operation changes the request number, the requester or the amount
\* of a stored Advance (nor the user or the amount of a stored CashAdvance).
C15_IdentityFieldsImmutable ==
    [][/\ \A n \in 1..Len(advances) :
            /\ n <= Len(advances')
            /\ advances'[n].requestNumber = advances[n].requestNumber
            /\ advances'[n].requester = advances[n].requester
            /\ advances'[n].amount = advances[n].amount
       /\ \A n \in 1..Len(cashAdvances) :
            /\ n <= Len(cashAdvances')
            /\ cashAdvances'[n].user = cashAdvances[n].user
            /\ cashAdvances'[n].amount = cashAdvances[n].amount
      ]_vars

\* an Advance has been approved twice and disbursed with an amount that is
\* not the requested one
C15_DisbursedOtherAmount ==
    \E n \in 1..Len(advances) :
        /\ advances[n].status = "disbursed"
        /\ Len(advances[n].approvals) = 2
        /\ advances[n].disbursement.disbursedAmount # advances[n].amount

-----------------------------------------------------------------------------
(* Claims about the list operations, checked under SpecQuery *)

\* the requester of a listed record
Owner(kind, i) == IF kind = "adv" THEN advances[i].requester ELSE cashAdvances[i].user

Answered == view # NoView /\ view.code = 200

\* C7: whatever the query parameters, every record that a staff user is
\* given by GET /advances (plain or search), the dashboard, my-requests and
\* the staff views has that user as its requester.
C7_StaffSeesOnlyOwnRecords ==
    (/\ Answered
     /\ view.role = "staff"
     /\ view.op \in {"list_advances", "dashboard_stats", "my_requests", "staff_recent"})
        => \A k \in 1..Len(view.items) : Owner(view.kind, view.items[k]) = view.actor

\* a staff user searched a store that holds another user's matching Advance
\* and was given records
C7_StaffSearchedSharedStore ==
    /\ Answered
    /\ view.role = "staff"
    /\ view.op = "list_advances"
    /\ view.query.search # "none"
    /\ view.items # <<>>
    /\ \E i \in 1..Len(advances) :
            /\ advances[i].requester # view.actor
            /\ AdvanceFilter(advances[i], view.actor, "finance", view.query)
            /\ SearchMatches(advances[i], view.query.search)

\* C8: every Advance that a manager is given by a list or report operation
\* was requested by a staff user of the manager's department.
C8_ManagerSeesOnlyOwnDepartment ==
    (/\ Answered
     /\ view.role = "manager"
     /\ view.kind \in {"adv", "cash"})
        => \A k \in 1..Len(view.items) :
                LET owner == Owner(view.kind, view.items[k])
                IN  /\ users[owner].department = users[view.actor].department
                    /\ users[owner].role = "staff"

\* the records that match the scope and every supplied filter, search included
Matching(v) ==
    CASE v.op = "list_advances" ->
            {i \in 1..Len(advances) :
                /\ AdvanceFilter(advances[i], v.actor, v.role, v.query)
                /\ v.query.search # "none" => SearchMatches(advances[i], v.query.search)}
      [] v.op = "my_requests" ->
            {i \in 1..Len(cashAdvances) :
                /\ cashAdvances[i].user = v.actor
                /\ v.query.status \notin {"none", "all"} =>
                        cashAdvances[i].status = v.query.status}
      [] v.op = "team_requests" ->
            {i \in 1..Len(cashAdvances) :
                /\ cashAdvances[i].user \in TeamMemberIds(users[v.actor].department)
                /\ v.query.status \notin {"none", "all"} =>
                        cashAdvances[i].status = v.query.status
                /\ v.query.search # "none" => cashAdvances[i].purpose = v.query.search}
      [] v.op = "list_users" ->
            {i \in 1..Len(UserOrder) :
                /\ v.query.role \notin {"none", "all"} =>
                        users[UserOrder[i]].role = v.query.role
                /\ v.query.search # "none" => users[UserOrder[i]].name = v.query.search}

\* the same request for page k
PageOf(v, k) ==
    LET query == [v.query EXCEPT !.page = k]
    IN  CASE v.op = "list_advances" -> ListAdvancesResponse(v.actor, query)
          [] v.op = "my_requests" -> MyRequestsResponse(v.actor, query)
          [] v.op = "team_requests" -> TeamRequestsResponse(v.actor, query)
          [] v.op = "list_users" -> ListUsersResponse(v.actor, query)

RECURSIVE PageCounts(_, _)
PageCounts(v, k) == IF k = 0 THEN 0 ELSE Len(PageOf(v, k).items) + PageCounts(v, k - 1)

\* C9: a paginated response reports as total the number N of records that
\* match scope, filters and search term, totalPages = ceil(N / limit), page
\* counts that add up to N, hasNext exactly before the last page and hasPrev
\* exactly after the first.
C9_PaginationMatchesResultSet ==
    (Answered /\ view.paged) =>
        LET n == Cardinality(Matching(view))
            pg == view.pagination
        IN  /\ pg.total = n
            /\ pg.totalPages = Ceil(n, view.query.limit)
            /\ PageCounts(view, pg.totalPages) = n
            /\ pg.hasNext <=> (view.query.page < pg.totalPages)
            /\ pg.hasPrev <=> (view.query.page > 1)

-----------------------------------------------------------------------------
(* Claims about accounts and tokens, checked under SpecAccounts *)

\* C11: every failed login with a well-formed body is answered with the same
\* status and the same generic message, whether or not an account with the
\* email exists and whether it is active or deactivated.
C11_FailedLoginsIndistinguishable ==
    \A p \in Procs :
        (/\ proc[p].pc = "done"
         /\ proc[p].op = "login"
         /\ validateLogin(proc[p].body)
         /\ proc[p].code # 200)
        => /\ proc[p].code = 400
           /\ proc[p].message = "Invalid email or password"

\* a login for the email of a deactivated account has been refused
C11_DeactivatedLoginRefused ==
    \E p \in Procs :
        /\ proc[p].pc = "done"
        /\ proc[p].op = "login"
        /\ proc[p].code # 200
        /\ \E u \in FindByEmail(proc[p].body.email) : ~users[u].isActive

\* a token that authenticate must admit now: signed by the server, not
\* expired, its subject a stored and active user
ValidToken(t) ==
    /\ t.form = "signed"
    /\ today < t.exp
    /\ t.sub \in DOMAIN users
    /\ users[t.sub].isActive

\* C16: authenticate admits a request, with the token's subject as acting
\* user, exactly when its token is well-formed, unexpired and names a stored,
\* active user at the time of the request; otherwise it answers 401 and no
\* handler runs.
C16_AuthenticateAdmitsValidTokensOnly ==
    [][/\ \A p \in Procs :
            (Free(p) /\ proc'[p] # proc[p] /\ proc'[p].op \in AccountOps) =>
                IF ValidToken(proc'[p].token)
                THEN proc'[p].pc = "authed" /\ proc'[p].actor = proc'[p].token.sub
                ELSE proc'[p].pc = "done" /\ proc'[p].code = 401
       /\ users' # users =>
            \E p \in Procs : proc[p].pc = "authed" /\ proc'[p].pc = "done"
      ]_vars

\* a token issued by a login and not yet expired was refused because its user
\* has since been deactivated or deleted
C16_StaleTokenRefused ==
    \E p \in Procs :
        /\ proc[p].pc = "done"
        /\ proc[p].op \in AccountOps
        /\ proc[p].code = 401
        /\ proc[p].token \in tokens
        /\ today < proc[p].token.exp
        /\ (proc[p].token.sub \notin DOMAIN users \/ ~users[proc[p].token.sub].isActive)

\* the roles that the route of an operation names in authorize(...)
AllowedRoles(op) ==
    CASE op = "approve" -> CanApproveRoles
      [] op = "disburse" -> DisburseRoles
      [] op = "manager_decide" -> ManagerOnly
      [] op \in {"user_status", "user_delete"} -> {"admin"}

GuardedOps == {"approve", "disburse", "manager_decide", "user_status", "user_delete"}

\* the step in which the route's authorize(...) decides on p's request
AuthorizeDecides(p) ==
    /\ proc'[p] # proc[p]
    /\ proc'[p].op \in GuardedOps
    /\ proc'[p].role # "none"
    /\ IF proc'[p].op \in AccountOps THEN proc[p].pc = "authed" ELSE Free(p)

\* C17: on every route guarded by authorize(roles...), a request of an acting
\* user whose role is not among the roles is answered 403 and changes nothing
\* in the store; a request that is not answered 403 has a role among them.
C17_AuthorizeGuardsHandlers ==
    [][\A p \in Procs :
        AuthorizeDecides(p) =>
            IF proc'[p].role \in AllowedRoles(proc'[p].op)
            THEN proc'[p].code # 403
            ELSE /\ proc'[p].pc = "done"
                 /\ proc'[p].code = 403
                 /\ UNCHANGED <<users, advances, cashAdvances>>
      ]_vars

\* requests of a role outside the allowed set were refused on an admin route,
\* and a store change by an admin has happened
C17_NonAdminRefused ==
    \E p \in Procs :
        /\ proc[p].pc = "done"
        /\ proc[p].op \in {"user_status", "user_delete"}
        /\ proc[p].role = "staff"
        /\ proc[p].code = 403

-----------------------------------------------------------------------------
(* Claims about disbursement and the approval history, checked under Spec *)

\* C18: a disburse request succeeds only on an Advance whose stored status is
\* finance_approved and for a finance or admin actor, and then stores status
\* disbursed with a disbursement record (disburser, amount defaulting to the
\* Advance's amount, method defaulting to cash); in every other status it is
\* answered 400 and the Advance is unchanged.
C18_DisburseOnlyFinanceApproved ==
    [][\A p \in Procs :
        /\ (proc[p].pc = "disburse_save" /\ proc'[p].pc = "done") =>
              LET n == proc[p].id.n IN
              /\ advances[n].status = "finance_approved"
              /\ proc[p].role \in {"finance", "admin"}
              /\ proc'[p].code = 200
              /\ advances'[n].status = "disbursed"
              /\ advances'[n].disbursement =
                    [disbursedBy |-> proc[p].actor,
                     disbursedAmount |-> IF proc[p].body.disbursedAmount # 0
                                         THEN proc[p].body.disbursedAmount
                                         ELSE advances[n].amount,
                     method |-> IF proc[p].body.method # "none" THEN proc[p].body.method
                                ELSE "cash"]
        /\ (/\ Free(p) /\ proc'[p] # proc[p] /\ proc'[p].op = "disburse"
            /\ proc'[p].role \in {"finance", "admin"}
            /\ AdvanceExists(proc'[p].id)
            /\ advances[proc'[p].id.n].status # "finance_approved") =>
              /\ proc'[p].pc = "done"
              /\ proc'[p].code = 400
              /\ advances' = advances
      ]_vars

\* a finance request has disbursed an Advance
C18_Disbursed ==
    \E p \in Procs :
        /\ proc[p].pc = "done"
        /\ proc[p].op = "disburse"
        /\ proc[p].code = 200

\* the status that an approval event stands for
StatusOfEvent(event) ==
    IF event.status = "rejected" THEN "rejected"
    ELSE IF event.role = "manager" THEN "manager_approved"
    ELSE "finance_approved"

\* C19: every successful approve/reject call appends exactly one event, with
\* the caller, the caller's role and the decision, to the end of the stored
\* history, leaves the earlier events as they were, and sets the status that
\* this newest event stands for (rejected wins whatever the role).
C19_ApprovalAppendsOneEvent ==
    [][\A p \in Procs :
        (proc[p].pc = "approve_save" /\ proc'[p].pc = "done") =>
            LET n == proc[p].id.n
                event == [approver |-> proc[p].actor, role |-> proc[p].role,
                          status |-> proc[p].decision]
            IN  /\ proc'[p].code = 200
                /\ advances'[n].approvals = Append(advances[n].approvals, event)
                /\ advances'[n].status = StatusOfEvent(event)
      ]_vars

\* a rejection has been appended after an earlier approval
C19_RejectedAfterApproval ==
    \E n \in 1..Len(advances) :
        /\ Len(advances[n].approvals) >= 2
        /\ advances[n].approvals[1].status = "approved"
        /\ advances[n].approvals[Len(advances[n].approvals)].status = "rejected"
        /\ advances[n].status = "rejected"

\* the stage at which a role decides
StageOf(role) ==
    CASE role = "manager" -> "pending"
      [] role = "finance" -> "manager_approved"
      [] OTHER -> "no stage"

\* C20: an approve/reject request whose body status is neither approved nor
\* rejected, whose Advance does not exist, or whose Advance is not at the
\* stage of the caller's role is answered with an error and changes nothing.
C20_FailedGuardChangesNothing ==
    [][\A p \in Procs :
        (/\ Free(p) /\ proc'[p] # proc[p] /\ proc'[p].op = "approve"
         /\ proc'[p].role \in CanApproveRoles
         /\ \/ proc'[p].pc = "done" /\ proc'[p].code # 200
            \/ ~AdvanceExists(proc'[p].id)
            \/ advances[proc'[p].id.n].status # StageOf(proc'[p].role)) =>
            /\ proc'[p].pc = "done"
            /\ proc'[p].code \in {400, 404}
            /\ advances' = advances
      ]_vars

\* a request on an Advance that had moved past the caller's stage was refused
\* with the current status
C20_RefusedAtWrongStage ==
    \E p \in Procs :
        /\ proc[p].pc = "done"
        /\ proc[p].op = "approve"
        /\ proc[p].code = 400
        /\ AdvanceExists(proc[p].id)
        /\ proc[p].current = advances[proc[p].id.n].status
        /\ proc[p].current \in {"manager_approved", "finance_approved", "rejected", "disbursed"}

C29_NoSelfApprovalOrDisbursement ==
    \A i \in 1..Len(advances) :
        /\ \A k \in 1..Len(advances[i].approvals) :
                advances[i].approvals[k].approver # advances[i].requester
        /\ advances[i].disbursement.disbursedBy # advances[i].requester

\* an Advance filed by a manager or finance officer has been decided on
C29_ApproverFiled ==
    \E i \in 1..Len(advances) :
        /\ users[advances[i].requester].role \in {"manager", "finance"}
        /\ advances[i].approvals # <<>>

-----------------------------------------------------------------------------
(* Claims about the users routes, checked under SpecUsersRoutes *)

\* C21: the authentication and authorization checks of a protected operation
\* are complete before the store is read for the target, so a caller who is
\* neither the target nor admin, manager or finance is answered 403 by
\* GET /users/:id whatever the store holds under :id.
C21_ChecksPrecedeStoreAccess ==
    \A p \in Procs :
        (/\ proc[p].pc = "done"
         /\ proc[p].op = "user_get"
         /\ proc[p].code # 401
         /\ ~CanViewUser(proc[p].actor, proc[p].role, proc[p].target))
            => proc[p].code = 403

\* a staff caller has asked for another user's profile and been answered
C21_StrangerAnswered ==
    \E p \in Procs :
        /\ proc[p].pc = "done"
        /\ proc[p].op = "user_get"
        /\ proc[p].role = "staff"
        /\ proc[p].target # proc[p].actor
        /\ proc[p].code \in {403, 404}

\* the user fields that PUT /users/:id must leave alone
ProtectedFields(user) ==
    <<user.role, user.isActive, user.email, user.employeeId, user.password>>

\* C22: PUT /users/:id succeeds only for the target user or an admin, changes
\* at most the whitelisted profile fields of the target, leaves the target's
\* role, active flag, email, employee identifier and password and every
\* other user as they were, and changes nothing when it is denied.
C22_ProfileUpdateFrame ==
    [][\A p \in Procs :
        (/\ proc[p].op = "user_update"
         /\ proc[p].pc \in {"authed", "user_update_save"}
         /\ proc'[p] # proc[p]) =>
            LET req == proc[p]
                t == req.target
            IN  /\ DOMAIN users' = DOMAIN users
                /\ \A u \in DOMAIN users : u # t => users'[u] = users[u]
                /\ t \in DOMAIN users =>
                        ProtectedFields(users'[t]) = ProtectedFields(users[t])
                /\ (users' # users \/ proc'[p].code = 200) =>
                        (req.actor = t \/ req.role = "admin")
                /\ proc'[p].code \in {400, 403, 404} => users' = users
      ]_vars

\* an admin has moved another user to a new department
C22_AdminUpdatedOther ==
    \E p \in Procs :
        /\ proc[p].pc = "done"
        /\ proc[p].op = "user_update"
        /\ proc[p].code = 200
        /\ proc[p].role = "admin"
        /\ proc[p].target # proc[p].actor
        /\ proc[p].target \in DOMAIN users
        /\ users[proc[p].target].department = "D2"
        /\ InitUsers[proc[p].target].department # "D2"

AdminOps == {"user_role", "user_status", "user_delete"}

\* C23: the role and the active flag of a stored user change, and a stored
\* user is removed, only by a step of PUT /users/:id/role, PUT /users/:id/status
\* or DELETE /users/:id whose caller authenticated with role admin.
C23_OnlyAdminsChangeRoleStatusOrDelete ==
    [][(\E u \in DOMAIN users :
            \/ u \notin DOMAIN users'
            \/ users'[u].role # users[u].role
            \/ users'[u].isActive # users[u].isActive) =>
        \E p \in Procs :
            /\ proc[p].pc = "authed"
            /\ proc[p].op \in AdminOps
            /\ proc[p].role = "admin"
            /\ proc'[p].pc = "done"
            /\ proc'[p].code = 200
      ]_vars

\* every admin route has acted: u1 was promoted and deactivated, u2 deleted
C23_AdminActed ==
    /\ users["u1"].role = "manager"
    /\ ~users["u1"].isActive
    /\ "u2" \notin DOMAIN users
    /\ \E p \in Procs : proc[p].pc = "done" /\ proc[p].op \in AdminOps /\ proc[p].code = 403

\* C26: every stored Advance's requester is a stored user, also after
\* DELETE /users/:id.
C26_RequesterExists ==
    \A i \in 1..Len(advances) : advances[i].requester \in DOMAIN users

\* an admin's DELETE /users/:id has been answered with success
C26_UserDeleted ==
    \E p \in Procs :
        /\ proc[p].pc = "done"
        /\ proc[p].op = "user_delete"
        /\ proc[p].code = 200
        /\ proc[p].target \notin DOMAIN users

\* C30: a manager's own PUT /users/:id does not change which users are the
\* manager's team, the set the /manager routes list and approve for.
C30_ManagerCannotChangeOwnTeam ==
    [][\A p \in Procs :
        (/\ proc[p].pc = "user_update_save"
         /\ proc[p].role = "manager"
         /\ proc[p].actor = proc[p].target
         /\ proc[p].actor \in DOMAIN users
         /\ proc'[p].pc = "done") =>
            LET m == proc[p].actor IN
            {u \in DOMAIN users' :
                /\ users'[u].department = users'[m].department
                /\ users'[u].role = "staff"
                /\ users'[u].isActive}
            = TeamMemberIds(users[m].department)
      ]_vars

\* the manager of department D1 has approved the cash advance of a staff user
\* whose department is D2
C30_ApprovedOtherDepartment ==
    /\ cashAdvances[1].status = "approved"
    /\ cashAdvances[1].approvedBy = "m1"
    /\ "u2" \in DOMAIN users
    /\ users["u2"].department = "D2"

-----------------------------------------------------------------------------
(* Claims about registration, checked under SpecRegister *)

EmailMessages == {"User with this email already exists", "Email already exists"}

\* what the two unique indexes keep
EmailAndEmployeeIdUnique ==
    \A u \in DOMAIN users, v \in DOMAIN users :
        u # v => /\ users[u].email # users[v].email
                 /\ users[u].employeeId # users[v].employeeId

\* C24: no two users share an email or an employee identifier, also after
\* concurrent registrations, and a registration refused as a duplicate is
\* answered with the field that is taken: an email message only when the
\* email is stored, the employee ID message only when the employee ID is.
C24_UniqueAndDuplicateNamed ==
    /\ EmailAndEmployeeIdUnique
    /\ \A p \in Procs :
            (proc[p].pc = "done" /\ proc[p].op = "register" /\ proc[p].code = 400) =>
                /\ proc[p].message \in EmailMessages =>
                        DuplicateEmail(Lowercase(proc[p].body.email))
                /\ proc[p].message = "Employee ID already exists" =>
                        DuplicateEmployeeId(Uppercase(proc[p].body.employeeId))

\* a registration that passed the pre-check has been refused by the index
C24_RefusedByIndex ==
    \E p \in Procs :
        /\ proc[p].pc = "done"
        /\ proc[p].op = "register"
        /\ proc[p].message = "Email already exists"
        /\ Cardinality(DOMAIN users) > Cardinality(UserIds)

-----------------------------------------------------------------------------
(* Claims about the CashAdvance lifecycle, checked under SpecCash *)

\* C25: a retire request changes a cash advance only if its caller is the
\* advance's requester and the stored status is approved; it then stores
\* status retired and the retirement record; a retire request that is
\* answered with an error leaves the store as it was.
C25_RetireOnlyApprovedByRequester ==
    [][\A p \in Procs :
        /\ (proc[p].pc = "retire_save" /\ proc'[p].pc = "done") =>
                LET n == proc[p].id.n IN
                /\ cashAdvances[n].user = proc[p].actor
                /\ cashAdvances[n].status = "approved"
                /\ cashAdvances'[n].status = "retired"
                /\ cashAdvances'[n].retirement =
                        [totalExpenses |-> proc[p].body.amount, retired |-> TRUE]
        /\ (proc'[p].op = "retire" /\ proc'[p] # proc[p] /\ proc'[p].code \in {400, 401, 404}) =>
                cashAdvances' = cashAdvances /\ advances' = advances
      ]_vars

\* a retire request has been answered with success
C25_Retired ==
    \E p \in Procs :
        /\ proc[p].pc = "done"
        /\ proc[p].op = "retire"
        /\ proc[p].code = 200
        /\ cashAdvances[proc[p].id.n].status = "retired"

\* C27: a manager route changes a cash advance only if the caller has role
\* manager, the stored status is pending and the owner is an active staff
\* user of the caller's department, and a reject only with a non-empty
\* reason; the write stores approved with approvedBy, or rejected with the
\* trimmed reason; a request answered with an error changes nothing.
C27_ManagerDecidesOnlyPendingTeamRequests ==
    [][\A p \in Procs :
        /\ (proc[p].pc = "manager_save" /\ proc'[p].pc = "done") =>
                LET n == proc[p].id.n
                    req == proc[p]
                IN
                /\ req.role = "manager"
                /\ cashAdvances[n].status = "pending"
                /\ cashAdvances[n].user \in TeamMemberIds(users[req.actor].department)
                /\ req.decision = "approved" =>
                        /\ cashAdvances'[n].status = "approved"
                        /\ cashAdvances'[n].approvedBy = req.actor
                /\ req.decision = "rejected" =>
                        /\ Trim(req.body.reason) # ""
                        /\ cashAdvances'[n].status = "rejected"
                        /\ cashAdvances'[n].rejectedReason = Trim(req.body.reason)
        /\ (/\ proc'[p].op = "manager_decide"
            /\ proc'[p] # proc[p]
            /\ proc'[p].code \in {400, 401, 403, 404}) =>
                cashAdvances' = cashAdvances
      ]_vars

\* a reject with a padded reason has been stored
C27_RejectedWithReason ==
    \E p \in Procs :
        /\ proc[p].pc = "done"
        /\ proc[p].op = "manager_decide"
        /\ proc[p].code = 200
        /\ proc[p].body.reason = " late "
        /\ cashAdvances[proc[p].id.n].rejectedReason = "late"

====
